---- MODULE Spec2Model ----
(***************************************************************************)
(* Study-Ai: the completion client (generateText with retry/backoff), the  *)
(* quiz store (createQuiz, getQuiz) and the answer evaluator               *)
(* (submitQuizAnswers, evaluateQuizAnswers, checkAnswer, checkAnswerAction *)
(* and the /api/check-answer route).                                       *)
(*                                                                         *)
(* Strings that the code inspects character by character are sequences of  *)
(* one-character strings; strings it only compares are TLA+ strings.       *)
(***************************************************************************)
EXTENDS Integers, Sequences, FiniteSets, TLC

(***************************************************************************)
(* Bounds of the model                                                     *)
(***************************************************************************)
\* largest maxRetries option a caller passes to generateText
MaxRetriesOpt == 3
\* largest retry-after header value (seconds) the server sends
MaxRetryAfter == 2
\* the completion endpoint returns every message content up to this length
\* (and the longer contents listed in Contents)
MaxContentLen == 1

\* the clock runs from 0 to this many milliseconds
MaxNow == 2
\* most createQuiz calls in flight at once
MaxPending == 2

\* most quizzes created in one run
MaxCreated == 2
\* most questions in one reply of the model
MaxQuestions == 2

\* the overall scores handed to generateOverallFeedback run from 0 to this
MaxOverallScore == 100

\* default of the maxRetries option
DefaultMaxRetries == 3

VARIABLES
    \* ---- one generateText call (completion client) ----
    gt_pc,        \* "idle" | "running" | "returned" | "thrown"
    gt_opts,      \* [maxRetries, responseFormat] of the call
    retryCount,   \* the loop counter
    lastError,    \* the error remembered by the catch block
    attempts,     \* kinds of the HTTP attempts made so far, oldest first
    waits,        \* seconds slept between attempts, oldest first
    gt_result,    \* the string returned or the error thrown
    \* ---- the quiz store (module state of lib/actions) ----
    quizStore,        \* quiz id -> QuizData, the in-memory store
    pastQuizzesStore, \* ids of the quizzes pushed to the history
    quizFile,         \* .quiz-data.json: [exists, quizzes, pastQuizzes]
    now,              \* Date.now()
    call,             \* the last server call: its inputs and its outcome
    \* ---- grading of one answer (check-answer route, checkAnswerAction) ----
    grade,            \* the last grading request and its response
    \* ---- the helper functions of lib/actions, applied on their own ----
    applied,          \* the last application: the function, its inputs, its outcome
    \* ---- calls in flight and the quiz page ----
    pending,          \* the asynchronous calls that have not resolved yet
    selectedAnswers   \* the quiz page's state: question id -> recorded answer

clientVars == <<gt_pc, gt_opts, retryCount, lastError, attempts, waits, gt_result>>
storeVars == <<quizStore, pastQuizzesStore, quizFile, now, call>>
asyncVars == <<pending, selectedAnswers>>

vars == <<gt_pc, gt_opts, retryCount, lastError, attempts, waits, gt_result,
          quizStore, pastQuizzesStore, quizFile, now, call, grade, applied,
          pending, selectedAnswers>>

(***************************************************************************)
(* Completion client: generateText                                         *)
(***************************************************************************)
Chars == {"{", "}", "x", " "}

RECURSIVE SeqsUpTo(_, _)
SeqsUpTo(S, n) ==
    IF n = 0 THEN {<<>>}
    ELSE LET shorter == SeqsUpTo(S, n - 1)
         IN  shorter \cup {Append(s, c) : s \in {t \in shorter : Len(t) = n - 1}, c \in S}

\* the contents of a completion: every short string, and a longer one whose
\* braces enclose something that is no JSON
Contents ==
    SeqsUpTo(Chars, MaxContentLen)
      \cup {<<"{", "}">>, <<"}", "{">>, <<" ", "{", "}">>, <<"{", "x", "}">>,
            <<"x", "{", " ", "}">>}

\* the retry-after header is absent
NoHeader == -1

NoContent == <<>>

Outcome(kind, retryAfter, status, content) ==
    [kind |-> kind, retryAfter |-> retryAfter, status |-> status, content |-> content]

\* the 429 responses: without a retry-after header, and with the least and
\* the largest value of it
RateLimited ==
    {Outcome("status429", r, 429, NoContent) : r \in {NoHeader, 0, MaxRetryAfter}}

\* what one fetch of the endpoint can yield
Outcomes ==
    RateLimited
      \cup {Outcome("httpError", NoHeader, s, NoContent) : s \in {401, 500}}
      \cup {Outcome("network", NoHeader, 0, NoContent)}
      \cup {Outcome("badBody", NoHeader, 200, NoContent)}
      \cup {Outcome("noEnvelope", NoHeader, 200, NoContent)}
      \cup {Outcome("content", NoHeader, 200, c) : c \in Contents}

NoError == [kind |-> "none", status |-> 0]
Err(kind, status) == [kind |-> kind, status |-> status]

\* the white space of \s and of String.prototype.trim that the inputs use
WhiteSpace == {" ", "\n", "\r", "\t"}

\* String.prototype.trim
RECURSIVE TrimLeft(_)
TrimLeft(s) == IF s # <<>> /\ Head(s) \in WhiteSpace THEN TrimLeft(Tail(s)) ELSE s

RECURSIVE TrimRight(_)
TrimRight(s) ==
    IF s # <<>> /\ s[Len(s)] \in WhiteSpace
    THEN TrimRight(SubSeq(s, 1, Len(s) - 1))
    ELSE s

Trim(s) == TrimRight(TrimLeft(s))

\* content.match(/\{[\s\S]*\}/): the span from the first "{" to the last "}"
\* after it, or <<>> when there is no match
JsonMatch(s) ==
    LET opens  == {i \in 1..Len(s) : s[i] = "{"}
        first  == IF opens = {} THEN 0 ELSE CHOOSE i \in opens : \A j \in opens : i <= j
        closes == {i \in 1..Len(s) : s[i] = "}" /\ first # 0 /\ i > first}
        last   == IF closes = {} THEN 0 ELSE CHOOSE i \in closes : \A j \in closes : i >= j
    IN  IF last = 0 THEN <<>> ELSE SubSeq(s, first, last)

RECURSIVE Pow2(_)
Pow2(n) == IF n = 0 THEN 1 ELSE 2 * Pow2(n - 1)

\* Math.pow(2, retryCount), in seconds
BackoffLinear(rc) == rc + 1
Backoff(rc) == Pow2(rc)

\* the seconds slept after a 429: the retry-after header when it is there,
\* the exponential backoff otherwise
RetryAfterIgnored(o, rc) == Backoff(rc)
RetryAfterWait(o, rc) == IF o.retryAfter = NoHeader THEN Backoff(rc) ELSE o.retryAfter

\* the while condition of the retry loop
LoopContinuesOff(rc, maxRetries) == rc <= maxRetries + 1
LoopContinues(rc, maxRetries) == rc <= maxRetries

\* the guard of the two "retry with backoff" branches
MayRetry(rc, maxRetries) == rc < maxRetries

\* the statement after the loop: throw lastError, or the "unknown" error
AfterLoop(err) == IF err # NoError THEN err ELSE Err("unknown", 0)

\* The error thrown inside the try block by a response that is no usable
\* content, or NoError when the response yields a string to return
TryError(o, fmt) ==
    CASE o.kind = "httpError"  -> Err("http", o.status)
      [] o.kind = "network"    -> Err("network", 0)
      [] o.kind = "badBody"    -> Err("bodyParse", 0)
      [] o.kind = "noEnvelope" -> Err("invalidFormat", 0)
      [] o.kind = "content"    ->
            IF o.content = <<>> THEN Err("invalidFormat", 0)
            ELSE IF fmt = "json" /\ JsonMatch(Trim(o.content)) = <<>>
                 THEN Err("jsonParse", 0)
                 ELSE NoError
      [] OTHER -> NoError

\* how one attempt ended: "ok", "status429", or the kind of its error
AttemptClass(o, fmt) ==
    IF o.kind = "status429" THEN "status429"
    ELSE IF TryError(o, fmt) = NoError THEN "ok" ELSE TryError(o, fmt).kind

\* the string returned by a usable response
Returned(o, fmt) ==
    IF fmt = "json" THEN JsonMatch(Trim(o.content)) ELSE Trim(o.content)

\* the call up to the retry loop; apiKey: config.apiKey is set
generateTextCall(maxRetries, fmt, apiKey) ==
    /\ gt_pc \in {"idle", "returned", "thrown"}
    /\ gt_pc' = IF apiKey THEN "running" ELSE "thrown"
    /\ gt_opts' = [maxRetries |-> maxRetries, responseFormat |-> fmt]
    /\ retryCount' = 0
    /\ lastError' = NoError
    /\ attempts' = <<>>
    /\ waits' = <<>>
    /\ gt_result' = [ok |-> FALSE, text |-> <<>>,
                     error |-> IF apiKey THEN NoError ELSE Err("notConfigured", 0)]
    /\ UNCHANGED <<storeVars, grade, applied, asyncVars>>

\* the loop moves on to iteration rc, or the call ends by the throw after it
Continue(rc, err) ==
    /\ retryCount' = rc
    /\ lastError' = err
    /\ IF LoopContinues(rc, gt_opts.maxRetries)
       THEN /\ gt_pc' = "running"
            /\ UNCHANGED gt_result
       ELSE /\ gt_pc' = "thrown"
            /\ gt_result' = [ok |-> FALSE, text |-> <<>>, error |-> AfterLoop(err)]

\* one iteration of the retry loop: one fetch and what follows it
generateTextAttempt(o) ==
    /\ gt_pc = "running"
    /\ attempts' = Append(attempts, AttemptClass(o, gt_opts.responseFormat))
    /\ UNCHANGED <<gt_opts, storeVars, grade, applied, asyncVars>>
    /\ CASE o.kind = "status429" ->
                /\ waits' = Append(waits, RetryAfterWait(o, retryCount))
                /\ Continue(retryCount + 1, lastError)
         [] o.kind = "httpError" /\ MayRetry(retryCount, gt_opts.maxRetries) ->
                /\ waits' = Append(waits, Backoff(retryCount))
                /\ Continue(retryCount + 1, lastError)
         [] OTHER ->
                LET e == TryError(o, gt_opts.responseFormat)
                IN  IF e = NoError
                    THEN /\ gt_pc' = "returned"
                         /\ gt_result' = [ok |-> TRUE,
                                          text |-> Returned(o, gt_opts.responseFormat),
                                          error |-> NoError]
                         /\ UNCHANGED <<retryCount, lastError, waits>>
                    ELSE IF MayRetry(retryCount, gt_opts.maxRetries)
                    THEN /\ waits' = Append(waits, Backoff(retryCount))
                         /\ Continue(retryCount + 1, e)
                    ELSE /\ gt_pc' = "thrown"
                         /\ gt_result' = [ok |-> FALSE, text |-> <<>>, error |-> AfterLoop(e)]
                         /\ lastError' = e
                         /\ UNCHANGED <<retryCount, waits>>

(***************************************************************************)
(* Strings                                                                 *)
(***************************************************************************)
\* a field the model's JSON left out (undefined)
Undef == <<"undefined">>

\* answer.trim() === ''
Blank(s) == Trim(s) = <<>>

\* s.replace(/pat/, sym): without the g flag only the first match is replaced
RECURSIVE ReplaceOnce(_, _, _)
ReplaceOnce(s, pat, sym) ==
    IF Len(s) < Len(pat) THEN s
    ELSE IF SubSeq(s, 1, Len(pat)) = pat
         THEN <<sym>> \o SubSeq(s, Len(pat) + 1, Len(s))
         ELSE <<Head(s)>> \o ReplaceOnce(Tail(s), pat, sym)

\* s.replace(/pat/g, sym) for a literal pattern
RECURSIVE ReplaceAll(_, _, _)
ReplaceAll(s, pat, sym) ==
    IF Len(s) < Len(pat) THEN s
    ELSE IF SubSeq(s, 1, Len(pat)) = pat
         THEN <<sym>> \o ReplaceAll(SubSeq(s, Len(pat) + 1, Len(s)), pat, sym)
         ELSE <<Head(s)>> \o ReplaceAll(Tail(s), pat, sym)

BS == "\\"

\* the replacement table of convertLatexToSymbols, in its order; a symbol is
\* written as the name of its code point
replacements ==
    << <<(<<BS, "n", "e", "q">>), "U+2260">>,
       <<(<<BS, "l", "e", "q">>), "U+2264">>,
       <<(<<BS, "g", "e", "q">>), "U+2265">>,
       <<(<<BS, "i", "n", "f", "t", "y">>), "U+221E">>,
       <<(<<BS, "i", "n">>), "U+2208">>,
       <<(<<BS, "s", "u", "b", "s", "e", "t">>), "U+2282">>,
       <<(<<BS, "s", "u", "p", "s", "e", "t">>), "U+2283">>,
       <<(<<BS, "c", "u", "p">>), "U+222A">>,
       <<(<<BS, "c", "a", "p">>), "U+2229">>,
       <<(<<BS, "e", "m", "p", "t", "y", "s", "e", "t">>), "U+2205">>,
       <<(<<BS, "p", "m">>), "U+00B1">>,
       <<(<<BS, "t", "i", "m", "e", "s">>), "U+00D7">>,
       <<(<<BS, "d", "i", "v">>), "U+00F7">>,
       <<(<<BS, "c", "d", "o", "t">>), "U+00B7">>,
       <<(<<BS, "r", "i", "g", "h", "t", "a", "r", "r", "o", "w">>), "U+2192">>,
       <<(<<BS, "l", "e", "f", "t", "a", "r", "r", "o", "w">>), "U+2190">>,
       <<(<<BS, "R", "i", "g", "h", "t", "a", "r", "r", "o", "w">>), "U+21D2">>,
       <<(<<BS, "L", "e", "f", "t", "a", "r", "r", "o", "w">>), "U+21D0">>,
       <<(<<BS, "x", "e", "r">>), "U+211D">>,
       <<(<<BS, "y", "e", "r">>), "U+211D">>,
       <<(<<BS, "m", "a", "t", "h", "b", "b", "{", "R", "}">>), "U+211D">>,
       <<(<<BS, "a", "l", "p", "h", "a">>), "U+03B1">>,
       <<(<<BS, "b", "e", "t", "a">>), "U+03B2">>,
       <<(<<BS, "t", "h", "e", "t", "a">>), "U+03B8">>,
       <<(<<BS, "p", "i">>), "U+03C0">> >>

RECURSIVE ApplyReplacements(_, _)
ApplyReplacements(s, i) ==
    IF i > Len(replacements) THEN s
    ELSE ApplyReplacements(ReplaceAll(s, replacements[i][1], replacements[i][2]), i + 1)

convertLatexToSymbols(text) == ApplyReplacements(text, 1)

(***************************************************************************)
(* Quiz data                                                               *)
(***************************************************************************)
\* a quiz id "quiz-<timestamp>" and a question id, as their parts between "-"
QuizId(t) == <<"quiz", ToString(t)>>

\* questionId.split('-')[0]
FirstPart(id) == IF id = <<>> THEN <<>> ELSE <<Head(id)>>

\* options the reply left out
NoOptions == <<Undef>>

Question(id, type, category, text, options, answer, explanation, rubric) ==
    [id |-> id, type |-> type, category |-> category, text |-> text,
     options |-> options, answer |-> answer, explanation |-> explanation,
     rubric |-> rubric]

Categories == {"Multiple Choice", "Knowledge", "Thinking", "Application", "Communication"}

\* the five counts of the form: multipleChoice, knowledge, thinking,
\* application, communication
Distribution(mc, k, t, a, c) ==
    [multipleChoice |-> mc, knowledge |-> k, thinking |-> t,
     application |-> a, communication |-> c]

numQuestions(d) ==
    d.multipleChoice + d.knowledge + d.thinking + d.application + d.communication

Count(qs, P(_)) == Cardinality({i \in 1..Len(qs) : P(qs[i])})

\* the counts createQuiz computes over the reply's questions
questionsByCategory(qs) ==
    LET short(cat) == Count(qs, LAMBDA q : q.type = "shortAnswer" /\ q.category = cat)
    IN  Distribution(Count(qs, LAMBDA q : q.type = "multipleChoice"),
                     short("Knowledge"), short("Thinking"),
                     short("Application"), short("Communication"))

NoResults ==
    [present |-> FALSE, answers |-> <<>>,
     overall |-> [score |-> 0, feedback |-> "", reviewTopics |-> <<>>, strengths |-> <<>>]]

\* the question after the "convert LaTeX commands" map of createQuiz
ConvertQuestion(q) ==
    [q EXCEPT !.text = convertLatexToSymbols(q.text),
              !.options = IF q.options = NoOptions THEN NoOptions
                          ELSE [i \in 1..Len(q.options) |-> convertLatexToSymbols(q.options[i])],
              !.answer = convertLatexToSymbols(q.answer),
              !.explanation = IF q.explanation \in {Undef, <<>>} THEN Undef
                              ELSE convertLatexToSymbols(q.explanation),
              !.rubric = IF q.rubric \in {Undef, <<>>} THEN Undef
                         ELSE convertLatexToSymbols(q.rubric)]

\* ---- the replies of the model that the runs draw from ----
OptA == <<"A">>
OptB == <<"B">>
OptC == <<"C">>
OptD == <<"D">>
Cell == <<"c", "e", "l", "l">>
TextPi == <<"x", BS, "p", "i">>
TextQ == <<"q">>

\* questions of a reply, before their position gives them an id
Shape(type, category, text, options, answer) ==
    Question(<<>>, type, category, text, options, answer, Undef, Undef)

mcGood  == Shape("multipleChoice", "Multiple Choice", TextPi, <<OptA, OptB, OptC, OptD>>, OptA)
mcDup   == Shape("multipleChoice", "Multiple Choice", TextQ, <<OptA, OptA, OptC, OptD>>, OptA)
mcThree == Shape("multipleChoice", "Multiple Choice", TextQ, <<OptA, OptB, OptC>>, OptA)
mcStray == Shape("multipleChoice", "Multiple Choice", TextQ, <<OptA, OptB, OptC, OptD>>, <<"E">>)
mcBlank == Shape("multipleChoice", "Multiple Choice", TextQ, <<OptA, OptB, OptC, OptD>>, <<>>)
saKnow  == Shape("shortAnswer", "Knowledge", TextQ, NoOptions, Cell)
\* a short-answer question that carries an explanation and a rubric
saThink ==
    [Shape("shortAnswer", "Thinking", TextPi, NoOptions, Cell)
        EXCEPT !.explanation = <<"e">>, !.rubric = <<"r">>]
noText  == Shape("shortAnswer", "Knowledge", Undef, NoOptions, Cell)

\* the model numbers the questions "1", "2", ... as the prompt's example does
Numbered(shapes) == [i \in 1..Len(shapes) |-> [shapes[i] EXCEPT !.id = <<ToString(i)>>]]

\* n questions that alternate between two shapes
Alternating(first, second, n) == [i \in 1..n |-> IF i % 2 = 1 THEN first ELSE second]

Reply(kind, questions) == [kind |-> kind, questions |-> questions]

\* what the quiz generation completion can come back as
Replies ==
    {Reply("quiz", Numbered(Alternating(mcGood, saKnow, n))) : n \in 0..MaxQuestions}
      \cup {Reply("quiz", Numbered(Alternating(saKnow, mcGood, n))) : n \in 0..MaxQuestions}
      \cup {Reply("quiz", Numbered(<<sh>>)) :
                sh \in {mcDup, mcThree, mcStray, mcBlank, saThink, noText}}
      \cup {Reply("quiz", <<[mcGood EXCEPT !.id = <<"1">>],
                             [saKnow EXCEPT !.id = <<"1">>]>>),
             Reply("quiz", <<mcGood, saKnow>>)}
      \cup {Reply(k, <<>>) : k \in {"throw", "notJson", "badStructure"}}

\* the "convert LaTeX commands" map of createQuiz over each reply of the model
\* (a table, so that the conversion is computed once per reply)
ConvertedQuestions ==
    [r \in Replies |-> [i \in 1..Len(r.questions) |-> ConvertQuestion(r.questions[i])]]

\* The "process quiz response" block of createQuiz: TRUE when it reaches the
\* store step.  reply.kind is what the text of the completion parses to.
ReplyAccepted(reply) ==
    /\ reply.kind = "quiz"
    /\ reply.questions # <<>>
    /\ \A i \in 1..Len(reply.questions) :
          /\ reply.questions[i].text # Undef
          /\ reply.questions[i].answer # Undef

\* saveQuizData: the write may fail, which the code only logs
saveQuizData(store, past) ==
    IF quizFile.writable
    THEN [quizFile EXCEPT !.exists = TRUE, !.quizzes = store, !.pastQuizzes = past]
    ELSE quizFile

\* loadQuizData: the stores after it
loadedQuizzes(store) == IF quizFile.exists THEN quizFile.quizzes ELSE store
loadedPast(past) == IF quizFile.exists THEN quizFile.pastQuizzes ELSE past

Call(op, ok, quizId, d, answers, result, aiCalls) ==
    [op |-> op, ok |-> ok, quizId |-> quizId, d |-> d, answers |-> answers,
     result |-> result, aiCalls |-> aiCalls]

\* a store with no quiz
EmptyStore == <<>>

NoDistribution == Distribution(0, 0, 0, 0, 0)
NoAnswers == <<>>

\* createQuiz(formData).  notes: what the uploaded files yield; subject, topic:
\* what determineSubject and determineTopic return ("throw" when they throw);
\* reply: what the quiz generation completion returns.
createQuizSteps(d, notes, subject, topic, reply) ==
    LET failedAt ==
            CASE numQuestions(d) = 0 -> "counts"
              [] numQuestions(d) > 50 -> "counts"
              [] notes # "text" -> "notes"
              [] subject = "throw" -> "subject"
              [] topic = "throw" -> "topic"
              [] reply.kind = "throw" -> "generate"
              [] ~ReplyAccepted(reply) -> "process"
              [] OTHER -> "none"
        aiCalls ==
            CASE failedAt \in {"counts", "notes"} -> 0
              [] failedAt = "subject" -> 1
              [] failedAt = "topic" -> 2
              [] OTHER -> 3
        quizId == QuizId(now)
        questions == ConvertedQuestions[reply]
        quiz == [subject |-> subject, topic |-> topic, questions |-> questions,
                 totalQuestions |-> Len(questions), results |-> NoResults]
    IN  /\ Len(pastQuizzesStore) < MaxCreated
        /\ IF failedAt = "none"
           THEN /\ quizStore' = (quizId :> quiz) @@ quizStore
                /\ pastQuizzesStore' = Append(pastQuizzesStore, quizId)
                /\ quizFile' = saveQuizData(quizStore', pastQuizzesStore')
                /\ call' = Call("createQuiz", TRUE, quizId, d, NoAnswers, NoResults, aiCalls)
           ELSE /\ UNCHANGED <<quizStore, pastQuizzesStore, quizFile>>
                /\ call' = Call("createQuiz", FALSE, <<>>, d, NoAnswers, NoResults, aiCalls)
        /\ UNCHANGED <<now, clientVars, grade, applied>>

\* a createQuiz call that no other call overlaps
createQuiz(d, notes, subject, topic, reply) ==
    /\ createQuizSteps(d, notes, subject, topic, reply)
    /\ UNCHANGED asyncVars

\* A createQuiz call that other calls may overlap.  The call changes no
\* module state before its last await (the quiz generation completion), so
\* it is modelled by two steps: the call is made and awaits its completions,
\* and, at a later time, it resumes and runs to its end without interruption.
createQuizAwait(caller, d, notes, subject, topic, reply) ==
    /\ \A p \in pending : p.caller # caller
    /\ pending' = pending \cup {[op |-> "createQuiz", caller |-> caller, started |-> now,
                                 d |-> d, notes |-> notes, subject |-> subject,
                                 topic |-> topic, reply |-> reply]}
    /\ UNCHANGED <<storeVars, clientVars, grade, applied, selectedAnswers>>

createQuizResume(p) ==
    /\ p \in pending
    /\ p.op = "createQuiz"
    /\ now > p.started
    /\ createQuizSteps(p.d, p.notes, p.subject, p.topic, p.reply)
    /\ pending' = pending \ {p}
    /\ UNCHANGED selectedAnswers

\* a millisecond passes
Tick ==
    /\ now < MaxNow
    /\ now' = now + 1
    /\ UNCHANGED <<quizStore, pastQuizzesStore, quizFile, call, clientVars, grade, applied,
                   asyncVars>>

\* getQuiz's "ensure each question has required fields" map
NormalizeQuestion(q, index) ==
    [id |-> IF q.id = <<>> THEN <<ToString(index)>> ELSE q.id,
     text |-> IF q.text = Undef THEN <<>> ELSE q.text,
     type |-> IF q.type = "" THEN "multipleChoice" ELSE q.type,
     category |-> IF q.category # "" THEN q.category
                  ELSE IF q.type = "multipleChoice" THEN "Multiple Choice" ELSE "Knowledge",
     options |-> IF q.options = NoOptions THEN <<>> ELSE q.options,
     answer |-> IF q.answer = Undef THEN <<>> ELSE q.answer,
     explanation |-> IF q.explanation = Undef THEN <<>> ELSE q.explanation,
     rubric |-> Undef]

\* getQuiz(id): reloads the stores from the file, then normalises the quiz's
\* questions in place
getQuiz(id) ==
    LET store == loadedQuizzes(quizStore)
    IN  /\ pastQuizzesStore' = loadedPast(pastQuizzesStore)
        /\ IF id \in DOMAIN store
           THEN /\ quizStore' =
                      [store EXCEPT ![id].questions =
                          [i \in 1..Len(store[id].questions) |->
                              NormalizeQuestion(store[id].questions[i], i)]]
                /\ call' = Call("getQuiz", TRUE, id, NoDistribution, NoAnswers, NoResults, 0)
           ELSE /\ quizStore' = store
                /\ call' = Call("getQuiz", FALSE, id, NoDistribution, NoAnswers, NoResults, 0)
        /\ UNCHANGED <<quizFile, now, clientVars, grade, applied, asyncVars>>

(***************************************************************************)
(* Answer evaluation: submitQuizAnswers, evaluateQuizAnswers, checkAnswer  *)
(***************************************************************************)
\* scores are in tenths: 10 is the score 1, 5 is 0.5
Graded(isCorrect, feedback, score, userAnswer) ==
    [isCorrect |-> isCorrect, feedback |-> feedback, score |-> score,
     userAnswer |-> userAnswer]

\* what the completion of an evaluation prompt parses to
AiReply(kind, isCorrect, score) == [kind |-> kind, isCorrect |-> isCorrect, score |-> score]

\* the value checkAnswer returns from its catch block
checkAnswerRethrows == [threw |-> TRUE, called |-> FALSE, isCorrect |-> FALSE,
                        feedback |-> "Error evaluating answer", score |-> 0]
checkAnswerDefault == [threw |-> FALSE, called |-> FALSE, isCorrect |-> FALSE,
                       feedback |-> "Error evaluating answer", score |-> 0]

\* checkAnswer(questionId, answer) against the store getQuiz reloaded
checkAnswer(store, questionId, answer, ai) ==
    LET quizKey == FirstPart(questionId)
    IN  IF quizKey \notin DOMAIN store
        THEN checkAnswerDefault
        ELSE IF \A i \in 1..Len(store[quizKey].questions) :
                    NormalizeQuestion(store[quizKey].questions[i], i).id # questionId
        THEN checkAnswerDefault
        ELSE IF ai.kind # "evaluation"
        THEN [checkAnswerDefault EXCEPT !.called = TRUE]
        ELSE [threw |-> FALSE, called |-> TRUE, isCorrect |-> ai.isCorrect,
              feedback |-> "ai", score |-> ai.score]

\* answers[question.id]
AnswerOf(answers, id) ==
    IF id \in DOMAIN answers /\ answers[id] # Undef THEN answers[id] ELSE <<>>

\* the question goes to checkAnswer
NeedsCheckAnswer(q, answers) ==
    /\ ~Blank(AnswerOf(answers, q.id))
    /\ q.type # "multipleChoice"

\* results.answers[id] = g
PutAnswer(acc, id, g) ==
    IF \E i \in 1..Len(acc) : acc[i].id = id
    THEN [i \in 1..Len(acc) |-> IF acc[i].id = id THEN [id |-> id, graded |-> g] ELSE acc[i]]
    ELSE Append(acc, [id |-> id, graded |-> g])

\* one iteration of the "evaluate each answer" loop
GradeQuestion(q, answers, store, ai) ==
    LET answer == AnswerOf(answers, q.id)
    IN  IF Blank(answer)
        THEN Graded(FALSE, "No answer provided", 0, <<>>)
        ELSE IF q.type = "multipleChoice"
        THEN IF answer = q.answer
             THEN Graded(TRUE, "Correct!", 10, answer)
             ELSE Graded(FALSE, "Incorrect", 0, answer)
        ELSE LET evaluation == checkAnswer(store, q.id, answer, ai)
             IN  Graded(evaluation.isCorrect, evaluation.feedback, evaluation.score, answer)

RECURSIVE GradeAll(_, _, _, _, _, _)
GradeAll(qs, i, answers, store, ai, acc) ==
    IF i > Len(qs) THEN acc
    ELSE GradeAll(qs, i + 1, answers, store, ai,
                  PutAnswer(acc, qs[i].id, GradeQuestion(qs[i], answers, store, ai)))

RECURSIVE SumScores(_)
SumScores(acc) == IF acc = <<>> THEN 0 ELSE Head(acc).graded.score + SumScores(Tail(acc))

\* ---- the arithmetic of the score: JavaScript numbers are IEEE 754 doubles ----
\* the significand of a double has 53 bits
SignificandBits == 53

\* a positive double: bits (most significant first, the first one 1) times
\* 2^(exp - 52); zero is kept apart
Double(bits, exp) == [bits |-> bits, exp |-> exp]

Zeros(k) == [i \in 1..k |-> 0]

\* bits + 1; the result is one bit longer when every bit was 1
Increment(bits) ==
    LET zeros == {i \in 1..Len(bits) : bits[i] = 0}
        last == CHOOSE i \in zeros : \A j \in zeros : j <= i
    IN  IF zeros = {} THEN <<1>> \o Zeros(Len(bits))
        ELSE [i \in 1..Len(bits) |-> IF i < last THEN bits[i] ELSE IF i = last THEN 1 ELSE 0]

\* round to nearest, ties to even: bits holds the exact value's leading bits
\* (at least 53), sticky tells whether anything nonzero lies below them
RoundToNearest(bits, sticky, exp) ==
    LET keep == SubSeq(bits, 1, SignificandBits)
        rest == SubSeq(bits, SignificandBits + 1, Len(bits))
        guard == rest # <<>> /\ rest[1] = 1
        below == sticky \/ \E i \in 2..Len(rest) : rest[i] = 1
        up == guard /\ (below \/ keep[SignificandBits] = 1)
        next == Increment(keep)
    IN  IF ~up THEN Double(keep, exp)
        ELSE IF Len(next) > SignificandBits
             THEN Double(SubSeq(next, 1, SignificandBits), exp + 1)
        ELSE Double(next, exp)

\* k further bits of the quotient, by long division from the remainder r
RECURSIVE QuotientBits(_, _, _)
QuotientBits(r, den, k) ==
    IF k = 0 THEN <<>>
    ELSE IF 2 * r >= den THEN <<1>> \o QuotientBits(2 * r - den, den, k - 1)
    ELSE <<0>> \o QuotientBits(2 * r, den, k - 1)

\* the remainder left after those k bits
RECURSIVE QuotientRest(_, _, _)
QuotientRest(r, den, k) ==
    IF k = 0 THEN r
    ELSE IF 2 * r >= den THEN QuotientRest(2 * r - den, den, k - 1)
    ELSE QuotientRest(2 * r, den, k - 1)

\* num / den scaled into [1, 2): <<num, den, exponent>>
RECURSIVE Normalized(_, _, _)
Normalized(num, den, exp) ==
    IF num >= 2 * den THEN Normalized(num, 2 * den, exp + 1)
    ELSE IF num < den THEN Normalized(2 * num, den, exp - 1)
    ELSE <<num, den, exp>>

\* a / b for integers a > 0 and b > 0, as the double the division yields
Divide(a, b) ==
    LET n == Normalized(a, b, 0)
        r == n[1] - n[2]
    IN  RoundToNearest(<<1>> \o QuotientBits(r, n[2], SignificandBits),
                       QuotientRest(r, n[2], SignificandBits) # 0, n[3])

\* the bits i..1 of x + y, the least significant first, given the carry
\* into bit i
RECURSIVE AddFrom(_, _, _, _)
AddFrom(x, y, i, carry) ==
    IF i = 0 THEN <<>>
    ELSE <<(x[i] + y[i] + carry) % 2>> \o AddFrom(x, y, i - 1, (x[i] + y[i] + carry) \div 2)

\* x + y for bit strings of one length; the sum fits that length
AddBits(x, y) ==
    LET sum == AddFrom(x, y, Len(x), 0)
    IN  SubSeq([i \in 1..Len(sum) |-> sum[Len(sum) + 1 - i]], 1, Len(sum))

\* d * 100, as the double the multiplication yields: 100 = 64 + 32 + 4
Times100(d) ==
    LET sum == AddBits(AddBits(Zeros(1) \o d.bits \o Zeros(6),
                               Zeros(2) \o d.bits \o Zeros(5)),
                       Zeros(5) \o d.bits \o Zeros(2))
        product == IF sum[1] = 1 THEN sum ELSE Tail(sum)
    IN  RoundToNearest(product, FALSE, d.exp + Len(product) - SignificandBits)

\* the number the first n bits spell
RECURSIVE BitsToNat(_, _)
BitsToNat(bits, n) == IF n = 0 THEN 0 ELSE 2 * BitsToNat(bits, n - 1) + bits[n]

\* Math.round(d) for a double below 2^52: halves are rounded up
MathRound(d) ==
    IF d.exp < -1 THEN 0
    ELSE IF d.exp = -1 THEN 1
    ELSE BitsToNat(d.bits, d.exp + 1) + d.bits[d.exp + 2]

\* Math.round((totalScore / totalQuestions) * 100); totalScore is in tenths
\* and a multiple of one half, which a double holds exactly
OverallScore(totalScore, totalQuestions) ==
    IF totalScore = 0 THEN 0
    ELSE MathRound(Times100(Divide(totalScore \div 5, 2 * totalQuestions)))

\* OverallScore for the totals of a stored quiz (a table, so that the division
\* is computed once per total)
overallScoreOf ==
    [totalScore \in {5 * k : k \in 0..(2 * (MaxQuestions + 1))},
     totalQuestions \in 1..(MaxQuestions + 1) |-> OverallScore(totalScore, totalQuestions)]

\* the tiers with their boundaries excluded
generateOverallFeedbackAbove(score) ==
    IF score > 90 THEN "excellent"
    ELSE IF score > 70 THEN "good"
    ELSE IF score > 50 THEN "basic"
    ELSE "review"

\* generateOverallFeedback(results), score being results.overall.score; each
\* message is written as the name of its tier
generateOverallFeedback(score) ==
    IF score >= 90 THEN "excellent"
    ELSE IF score >= 70 THEN "good"
    ELSE IF score >= 50 THEN "basic"
    ELSE "review"

RECURSIVE Dedup(_)
Dedup(s) ==
    IF s = <<>> THEN <<>>
    ELSE LET rest == Dedup(SubSeq(s, 1, Len(s) - 1))
             last == s[Len(s)]
         IN  IF \E i \in 1..Len(rest) : rest[i] = last THEN rest ELSE Append(rest, last)

\* quiz.questions.find(q => q.id === questionId).text || 'General concepts'
TextOf(qs, id) ==
    LET i == CHOOSE i \in 1..Len(qs) : qs[i].id = id /\ \A j \in 1..(i - 1) : qs[j].id # id
    IN  IF qs[i].text \in {<<>>, Undef} THEN <<"General concepts">> ELSE qs[i].text

RECURSIVE TextsWhere(_, _, _)
TextsWhere(acc, qs, correct) ==
    IF acc = <<>> THEN <<>>
    ELSE LET rest == TextsWhere(Tail(acc), qs, correct)
         IN  IF Head(acc).graded.isCorrect = correct
             THEN <<TextOf(qs, Head(acc).id)>> \o rest
             ELSE rest

identifyReviewTopics(acc, qs) == Dedup(TextsWhere(acc, qs, FALSE))
identifyStrengths(acc, qs) == Dedup(TextsWhere(acc, qs, TRUE))

\* evaluateQuizAnswers(quizId, answers, quiz), store being the quizzes that
\* checkAnswer's getQuiz sees
evaluateQuizAnswers(answers, quiz, store, ai) ==
    LET acc == GradeAll(quiz.questions, 1, answers, store, ai, <<>>)
        totalScore == SumScores(acc)
        totalQuestions == Len(quiz.questions)
        score == IF <<totalScore, totalQuestions>> \in DOMAIN overallScoreOf
                 THEN overallScoreOf[totalScore, totalQuestions]
                 ELSE OverallScore(totalScore, totalQuestions)
    IN  [present |-> TRUE, answers |-> acc,
         overall |-> [score |-> score,
                      feedback |-> generateOverallFeedback(score),
                      reviewTopics |-> identifyReviewTopics(acc, quiz.questions),
                      strengths |-> identifyStrengths(acc, quiz.questions)]]

\* some checkAnswer call of the evaluation threw
EvaluationThrows(answers, quiz, store, ai) ==
    \E i \in 1..Len(quiz.questions) :
        /\ NeedsCheckAnswer(quiz.questions[i], answers)
        /\ checkAnswer(store, quiz.questions[i].id, AnswerOf(answers, quiz.questions[i].id), ai).threw

\* the completion calls of the evaluation
EvaluationCalls(answers, quiz, store, ai) ==
    Cardinality({i \in 1..Len(quiz.questions) :
        /\ NeedsCheckAnswer(quiz.questions[i], answers)
        /\ checkAnswer(store, quiz.questions[i].id, AnswerOf(answers, quiz.questions[i].id), ai).called})

\* submitQuizAnswers(quizId, answers).  checkAnswer's getQuiz reloads the
\* module's stores from the file: the quiz object this call holds is then no
\* longer the one in quizStore, and quiz.results is set on the object it holds.
submitQuizAnswers(quizId, answers, ai) ==
    IF quizId \notin DOMAIN quizStore
    THEN /\ call' = Call("submitQuizAnswers", FALSE, quizId, NoDistribution, answers, NoResults, 0)
         /\ UNCHANGED <<quizStore, pastQuizzesStore, quizFile, now, clientVars, grade, applied, asyncVars>>
    ELSE LET quiz == quizStore[quizId]
             reloads == \E i \in 1..Len(quiz.questions) :
                            NeedsCheckAnswer(quiz.questions[i], answers)
             store == IF reloads THEN loadedQuizzes(quizStore) ELSE quizStore
             past == IF reloads THEN loadedPast(pastQuizzesStore) ELSE pastQuizzesStore
             detached == reloads /\ quizFile.exists
             results == evaluateQuizAnswers(answers, quiz, store, ai)
             calls == EvaluationCalls(answers, quiz, store, ai)
         IN  /\ pastQuizzesStore' = past
             /\ IF EvaluationThrows(answers, quiz, store, ai)
                THEN /\ quizStore' = store
                     /\ UNCHANGED quizFile
                     /\ call' = Call("submitQuizAnswers", FALSE, quizId, NoDistribution,
                                     answers, NoResults, calls)
                ELSE /\ quizStore' = IF detached THEN store
                                     ELSE [store EXCEPT ![quizId].results = results]
                     /\ quizFile' = saveQuizData(quizStore', past)
                     /\ call' = Call("submitQuizAnswers", TRUE, quizId, NoDistribution,
                                     answers, results, calls)
             /\ UNCHANGED <<now, clientVars, grade, applied, asyncVars>>

\* getQuizResults(resultId)
getQuizResults(resultId) ==
    /\ IF resultId \in DOMAIN quizStore /\ quizStore[resultId].results.present
       THEN call' = Call("getQuizResults", TRUE, resultId, NoDistribution, NoAnswers,
                         quizStore[resultId].results, 0)
       ELSE call' = Call("getQuizResults", FALSE, resultId, NoDistribution, NoAnswers,
                         NoResults, 0)
    /\ UNCHANGED <<quizStore, pastQuizzesStore, quizFile, now, clientVars, grade, applied, asyncVars>>

(***************************************************************************)
(* The earlier revision of lib/actions: createQuiz clears the stores first *)
(* and evaluateQuizAnswers grades all answers in one completion call       *)
(***************************************************************************)
\* createQuiz(formData) of the earlier revision: clearQuizStore(), then the
\* same steps (without the "no text could be extracted" checks)
createQuizClearing(d, notes, subject, topic, reply) ==
    LET failedAt ==
            CASE numQuestions(d) = 0 -> "counts"
              [] numQuestions(d) > 50 -> "counts"
              [] notes = "noFiles" -> "notes"
              [] subject = "throw" -> "subject"
              [] topic = "throw" -> "topic"
              [] reply.kind = "throw" -> "generate"
              [] ~ReplyAccepted(reply) -> "process"
              [] OTHER -> "none"
        aiCalls ==
            CASE failedAt \in {"counts", "notes"} -> 0
              [] failedAt = "subject" -> 1
              [] failedAt = "topic" -> 2
              [] OTHER -> 3
        quizId == QuizId(now)
        questions == ConvertedQuestions[reply]
        quiz == [subject |-> subject, topic |-> topic, questions |-> questions,
                 totalQuestions |-> Len(questions), results |-> NoResults]
    IN  /\ IF failedAt = "none"
           THEN /\ quizStore' = (quizId :> quiz)
                /\ pastQuizzesStore' = <<quizId>>
                /\ call' = Call("createQuiz", TRUE, quizId, d, NoAnswers, NoResults, aiCalls)
           ELSE /\ quizStore' = EmptyStore
                /\ pastQuizzesStore' = <<>>
                /\ call' = Call("createQuiz", FALSE, <<>>, d, NoAnswers, NoResults, aiCalls)
        /\ quizFile' = saveQuizData(quizStore', pastQuizzesStore')
        /\ UNCHANGED <<now, clientVars, grade, applied, asyncVars>>

\* the "structured error response" both functions of the earlier revision
\* return from their catch blocks
ErrorResults(qs, feedback, topic) ==
    [present |-> TRUE,
     answers |-> [i \in 1..Len(qs) |->
                    [id |-> qs[i].id,
                     graded |-> Graded(FALSE, "Error evaluating answer", 0, Undef)]],
     overall |-> [score |-> 0, feedback |-> feedback, reviewTopics |-> <<topic>>,
                  strengths |-> <<>>]]

\* evaluateQuizAnswers(quizId, answers, quiz) of the earlier revision; ai is
\* what the one completion call comes back as
evaluateQuizAnswersBatch(answers, quiz, ai) ==
    IF \A id \in DOMAIN answers : answers[id] = Undef
    THEN [present |-> TRUE,
          answers |-> [i \in 1..Len(quiz.questions) |->
                         [id |-> quiz.questions[i].id,
                          graded |-> Graded(FALSE, "No answer provided", 0, Undef)]],
          overall |-> [score |-> 0, feedback |-> "No answers were provided",
                       reviewTopics |-> <<(<<"All topics need to be reviewed">>)>>,
                       strengths |-> <<>>]]
    ELSE IF ai.kind = "evaluation"
    THEN [present |-> TRUE,
          answers |-> [i \in 1..Len(quiz.questions) |->
                         [id |-> quiz.questions[i].id,
                          graded |-> Graded(ai.isCorrect, "ai", ai.score, Undef)]],
          overall |-> [score |-> 10 * ai.score, feedback |-> "ai",
                       reviewTopics |-> <<>>, strengths |-> <<>>]]
    ELSE ErrorResults(quiz.questions, "Error evaluating answers",
                      <<"Please review all topics">>)

\* submitQuizAnswers(quizId, answers) of the earlier revision: it returns a
\* result in every case
submitQuizAnswersBatch(quizId, answers, ai) ==
    /\ IF quizId \notin DOMAIN quizStore
       THEN /\ call' = Call("submitQuizAnswersBatch", TRUE, quizId, NoDistribution, answers,
                            ErrorResults(<<>>, "There was an error submitting your quiz",
                                         <<"Error occurred during submission">>), 0)
            /\ UNCHANGED <<quizStore, quizFile>>
       ELSE LET quiz == quizStore[quizId]
                results == evaluateQuizAnswersBatch(answers, quiz, ai)
                aiCalls == IF \A id \in DOMAIN answers : answers[id] = Undef THEN 0 ELSE 1
            IN  /\ quizStore' = [quizStore EXCEPT ![quizId].results = results]
                /\ quizFile' = saveQuizData(quizStore', pastQuizzesStore)
                /\ call' = Call("submitQuizAnswersBatch", TRUE, quizId, NoDistribution,
                                answers, results, aiCalls)
    /\ UNCHANGED <<pastQuizzesStore, now, clientVars, grade, applied, asyncVars>>

(***************************************************************************)
(* Grading of one answer: the check-answer route and checkAnswerAction     *)
(***************************************************************************)
UpperCase == <<"A", "B", "C", "D", "E", "F", "G", "H", "I", "J", "K", "L", "M",
               "N", "O", "P", "Q", "R", "S", "T", "U", "V", "W", "X", "Y", "Z">>
LowerCase == <<"a", "b", "c", "d", "e", "f", "g", "h", "i", "j", "k", "l", "m",
               "n", "o", "p", "q", "r", "s", "t", "u", "v", "w", "x", "y", "z">>

\* String.prototype.toLowerCase
toLowerCase(s) ==
    [i \in 1..Len(s) |->
        IF \E k \in 1..Len(UpperCase) : UpperCase[k] = s[i]
        THEN LowerCase[CHOOSE k \in 1..Len(UpperCase) : UpperCase[k] = s[i]]
        ELSE s[i]]

\* s.split(' '), as the set of its pieces
Words(s) ==
    LET cuts == {0, Len(s) + 1} \cup {i \in 1..Len(s) : s[i] = " "}
    IN  {SubSeq(s, a + 1, b - 1) :
            <<a, b>> \in {c \in cuts \X cuts :
                            c[1] < c[2] /\ \A k \in cuts : ~(c[1] < k /\ k < c[2])}}

\* s.includes(word)
Includes(s, word) ==
    \E i \in 1..(Len(s) - Len(word) + 1) : SubSeq(s, i, i + Len(word) - 1) = word

\* the score (in tenths) of the route's "lenient text matching" fallback
FallbackScore(studentAnswer, correctAnswer) ==
    LET normalizedStudent == toLowerCase(Trim(studentAnswer))
        normalizedCorrect == toLowerCase(Trim(correctAnswer))
        isExactMatch == normalizedStudent = normalizedCorrect
        containsKeywords == \E word \in Words(normalizedCorrect) :
                                Len(word) > 3 /\ Includes(normalizedStudent, word)
    IN  IF isExactMatch THEN 10 ELSE IF containsKeywords THEN 5 ELSE 0

\* !value for a string field of the request body
Falsy(s) == s \in {Undef, <<>>}

\* a response: its HTTP status, whether it carries a grade, and the grade
GradeResponse(status, graded, score, correct, feedback) ==
    [status |-> status, graded |-> graded, score |-> score, correct |-> correct,
     feedback |-> feedback]

GradeCall(op, questionType, studentAnswer, correctAnswer, ai, response, aiCalls) ==
    [op |-> op, questionType |-> questionType, studentAnswer |-> studentAnswer,
     correctAnswer |-> correctAnswer, ai |-> ai, response |-> response,
     aiCalls |-> aiCalls]

\* the route's fallback response
FallbackResponse(studentAnswer, correctAnswer) ==
    LET score == FallbackScore(studentAnswer, correctAnswer)
    IN  GradeResponse(200, TRUE, score, score = 10,
                      IF score = 10 THEN "Correct! Well done!"
                      ELSE IF score = 5 THEN "Partially correct"
                      ELSE "Incorrect. Please review the material")

\* POST /api/check-answer
POST(questionId, questionText, studentAnswer, correctAnswer, questionType, ai) ==
    LET response ==
            IF \/ Falsy(questionId) \/ Falsy(questionText) \/ Falsy(studentAnswer)
               \/ Falsy(correctAnswer) \/ questionType = ""
            THEN GradeResponse(400, FALSE, 0, FALSE, "Missing required fields")
            ELSE IF questionType = "multipleChoice"
            THEN IF Trim(studentAnswer) = Trim(correctAnswer)
                 THEN GradeResponse(200, TRUE, 10, TRUE, "Correct! Well done!")
                 ELSE GradeResponse(200, TRUE, 0, FALSE, "Incorrect. Please review the options")
            ELSE IF ai.kind = "evaluation"
            THEN GradeResponse(200, TRUE, ai.score, ai.isCorrect, "ai")
            ELSE FallbackResponse(studentAnswer, correctAnswer)
        aiCalls == IF response.status = 200 /\ questionType # "multipleChoice" THEN 1 ELSE 0
    IN  /\ grade' = GradeCall("POST", questionType, studentAnswer, correctAnswer, ai,
                              response, aiCalls)
        /\ UNCHANGED <<storeVars, clientVars, applied, asyncVars>>

\* the value checkAnswerAction returns from its catch block
checkAnswerActionDefault(studentAnswer, correctAnswer) ==
    GradeResponse(200, TRUE, 0, FALSE, "Error evaluating answer")

\* checkAnswerAction(questionId, studentAnswer, correctAnswer, questionType)
checkAnswerActionResult(studentAnswer, correctAnswer, questionType, ai) ==
    IF questionType = "multipleChoice"
    THEN IF studentAnswer = correctAnswer
         THEN GradeResponse(200, TRUE, 10, TRUE, "Correct!")
         ELSE GradeResponse(200, TRUE, 0, FALSE, "Incorrect. Try again!")
    ELSE CASE ai.kind = "evaluation" ->
                  GradeResponse(200, TRUE, ai.score, ai.isCorrect, "ai")
           [] ai.kind = "badShape" ->
                  GradeResponse(200, FALSE, 0, FALSE, "")
           [] OTHER -> checkAnswerActionDefault(studentAnswer, correctAnswer)

checkAnswerAction(questionId, studentAnswer, correctAnswer, questionType, ai) ==
    LET response == checkAnswerActionResult(studentAnswer, correctAnswer, questionType, ai)
        aiCalls == IF questionType = "multipleChoice" THEN 0 ELSE 1
    IN  /\ grade' = GradeCall("checkAnswerAction", questionType, studentAnswer,
                              correctAnswer, ai, response, aiCalls)
        /\ UNCHANGED <<storeVars, clientVars, applied, asyncVars>>

(***************************************************************************)
(* Quiz page: handleAnswerSelect and the answer checks it starts           *)
(***************************************************************************)
\* the questions of the quiz on the page
PageQuestions == <<[mcGood EXCEPT !.id = <<"1">>], [saKnow EXCEPT !.id = <<"2">>]>>

\* quiz.questions.find(q => q.id === questionId), as a sequence of at most one
FindQuestion(questionId) ==
    SelectSeq(PageQuestions, LAMBDA q : q.id = questionId)

\* the completion's verdict on a short answer depends on the text alone
PageGrader(text) == AiReply("evaluation", text = Cell, IF text = Cell THEN 8 ELSE 3)

\* what checkAnswerAction resolves to for a selection
CheckResult(question, text) ==
    checkAnswerActionResult(text, question.answer, question.type, PageGrader(text))

\* an entry of selectedAnswers; checked: its score, correct and feedback
\* fields are set
Selected(text, checked, score, correct, feedback) ==
    [text |-> text, checked |-> checked, score |-> score, correct |-> correct,
     feedback |-> feedback]

\* prev[questionId] where nothing was selected yet
NotSelected == Selected(<<>>, FALSE, 0, FALSE, "")

\* the entry the .then callback writes
CheckedAnswer(text, result) ==
    Selected(text, TRUE, result.score, result.correct,
             IF result.feedback = "" THEN "No feedback available" ELSE result.feedback)

\* handleAnswerSelect(questionId, answer) up to the point where the promise
\* of checkAnswerAction is left pending; call.answers keeps the latest
\* selection under each question
handleAnswerSelect(questionId, text) ==
    LET found == FindQuestion(questionId)
        prev == IF questionId \in DOMAIN selectedAnswers
                THEN selectedAnswers[questionId] ELSE NotSelected
    IN  /\ Cardinality(pending) < MaxPending
        /\ IF found = <<>>
           THEN UNCHANGED <<pending, selectedAnswers, call>>
           ELSE /\ selectedAnswers' =
                      (questionId :> [prev EXCEPT !.text = text]) @@ selectedAnswers
                /\ pending' = pending \cup {[op |-> "check", caller |-> questionId,
                                             text |-> text, question |-> found[1]]}
                /\ call' = Call("handleAnswerSelect", TRUE, <<>>, NoDistribution,
                                (questionId :> text) @@ call.answers, NoResults, 0)
        /\ UNCHANGED <<quizStore, pastQuizzesStore, quizFile, now, clientVars, grade, applied>>

\* the .then callback of one pending check
checkAnswerThen(p) ==
    /\ p.op = "check"
    /\ selectedAnswers' =
          (p.caller :> CheckedAnswer(p.text, CheckResult(p.question, p.text)))
              @@ selectedAnswers
    /\ pending' = pending \ {p}
    /\ UNCHANGED <<storeVars, clientVars, grade, applied>>

\* the .catch callback: the request of one pending check fails
checkAnswerCatch(p) ==
    /\ p.op = "check"
    /\ pending' = pending \ {p}
    /\ UNCHANGED <<selectedAnswers, storeVars, clientVars, grade, applied>>

(***************************************************************************)
(* Classification of the notes: determineSubject and determineTopic        *)
(***************************************************************************)
\* text.replace(/[chars]/g, '')
Strip(s, chars) == SelectSeq(s, LAMBDA c : c \notin chars)

\* const v = e; F(v): the value of e is computed once and handed to F
With(F(_), e) == CHOOSE r \in {F(v) : v \in {e}} : TRUE

\* what a completion call made by a helper yields: the text, or a throw
Completion(kind, text) == [kind |-> kind, text |-> text]

\* the outcome of a helper: the string returned, or ok = FALSE when it throws
Returns(text) == [ok |-> TRUE, text |-> text]
Throws == [ok |-> FALSE, text |-> <<>>]

validSubjects ==
    <<<<"M", "a", "t", "h", "e", "m", "a", "t", "i", "c", "s">>,
      <<"P", "h", "y", "s", "i", "c", "s">>,
      <<"C", "h", "e", "m", "i", "s", "t", "r", "y">>,
      <<"B", "i", "o", "l", "o", "g", "y">>,
      <<"H", "i", "s", "t", "o", "r", "y">>,
      <<"E", "n", "g", "l", "i", "s", "h">>,
      <<"G", "e", "o", "g", "r", "a", "p", "h", "y">>,
      <<"C", "o", "m", "p", "u", "t", "e", "r", " ", "S", "c", "i", "e", "n", "c", "e">>,
      <<"H", "e", "a", "l", "t", "h", "c", "a", "r", "e">>>>

\* determineSubject(notesText) given the completion's reply: the reply is
\* cleaned and matched against validSubjects without regard to case
determineSubject(response) ==
    LET subject == Trim(Strip(response.text, {"'", "\"", ".", ",", "\n", "\r"}))
        found == {i \in 1..Len(validSubjects) :
                    toLowerCase(validSubjects[i]) = toLowerCase(subject)}
        matchedSubject == validSubjects[CHOOSE i \in found : \A j \in found : i <= j]
    IN  IF response.kind = "throw" THEN Throws
        ELSE IF found = {} THEN Throws
        ELSE Returns(matchedSubject)

\* determineSubject of the earlier revision: the cleaned reply is returned
\* unless it is empty
determineSubjectCleaned(response) ==
    LET subject == Trim(Strip(response.text, {"'", "\"", ".", ","}))
    IN  IF response.kind = "throw" THEN Throws
        ELSE IF subject = <<>> THEN Throws
        ELSE Returns(subject)

\* determineSubject of the revision that validates the distribution: the
\* cleaned reply is returned, and "Mathematics" when it is empty or the
\* completion throws
determineSubjectDefault(response) ==
    LET subject == Trim(Strip(response.text, {"'", "\"", ".", ","}))
    IN  IF response.kind = "throw" THEN Returns(validSubjects[1])
        ELSE IF subject = <<>> THEN Returns(validSubjects[1])
        ELSE Returns(subject)

\* one application of a helper, recorded with its inputs
Applied(fn, response, notesText, subject, outcome) ==
    [fn |-> fn, response |-> response, notesText |-> notesText, subject |-> subject,
     outcome |-> outcome]

determineSubjectCall(response) ==
    /\ applied' = Applied("determineSubject", response, <<>>, <<>>,
                          determineSubject(response))
    /\ UNCHANGED <<storeVars, clientVars, grade, asyncVars>>

determineSubjectCleanedCall(response) ==
    /\ applied' = Applied("determineSubjectCleaned", response, <<>>, <<>>,
                          determineSubjectCleaned(response))
    /\ UNCHANGED <<storeVars, clientVars, grade, asyncVars>>

\* String.prototype.toUpperCase
toUpperCase(s) ==
    [i \in 1..Len(s) |->
        IF \E k \in 1..Len(LowerCase) : LowerCase[k] = s[i]
        THEN UpperCase[CHOOSE k \in 1..Len(LowerCase) : LowerCase[k] = s[i]]
        ELSE s[i]]

Digits == {"0", "1", "2", "3", "4", "5", "6", "7", "8", "9"}

\* s.indexOf(pat), counted from 1; 0 when pat does not occur
IndexOf(s, pat) ==
    LET at == {i \in 1..(Len(s) - Len(pat) + 1) : SubSeq(s, i, i + Len(pat) - 1) = pat}
    IN  IF at = {} THEN 0 ELSE CHOOSE i \in at : \A j \in at : i <= j

\* s.replace(pat, '') for a literal pattern: the first occurrence is removed
RemoveFirst(s, pat) ==
    LET i == IndexOf(s, pat)
    IN  IF i = 0 THEN s ELSE SubSeq(s, 1, i - 1) \o SubSeq(s, i + Len(pat), Len(s))

\* s.split(sep) for a one-character separator
RECURSIVE Split(_, _)
Split(s, sep) ==
    LET i == IndexOf(s, <<sep>>)
    IN  IF i = 0 THEN <<s>>
        ELSE <<SubSeq(s, 1, i - 1)>> \o Split(SubSeq(s, i + 1, Len(s)), sep)

\* pieces.join(sep)
RECURSIVE Join(_, _)
Join(pieces, sep) ==
    IF pieces = <<>> THEN <<>>
    ELSE IF Len(pieces) = 1 THEN pieces[1]
    ELSE pieces[1] \o sep \o Join(Tail(pieces), sep)

\* s.split(/\s+/): a run of white space separates two pieces
SplitWhiteSpace(s) ==
    LET blanked == [i \in 1..Len(s) |-> IF s[i] \in WhiteSpace THEN " " ELSE s[i]]
        Kept(pieces) ==
            LET kept == {i \in 1..Len(pieces) : pieces[i] # <<>> \/ i = 1 \/ i = Len(pieces)}
                Pick(n) == CHOOSE i \in kept : Cardinality({j \in kept : j < i}) = n - 1
            IN  [n \in 1..Cardinality(kept) |-> pieces[Pick(n)]]
    IN  With(LAMBDA pieces : Kept(pieces), Split(blanked, " "))

\* the text up to the first line feed
FirstLine(s) ==
    LET i == IndexOf(s, <<"\n">>)
    IN  IF i = 0 THEN s ELSE SubSeq(s, 1, i - 1)

\* const m = s.match(/label\s*([^\n]+)/); m ? m[1].trim() : ''
Field(s, label) ==
    LET i == IndexOf(s, label)
    IN  IF i = 0 THEN <<>>
        ELSE Trim(FirstLine(TrimLeft(SubSeq(s, i + Len(label), Len(s)))))

\* the number of digits s starts with
RECURSIVE LeadingDigits(_)
LeadingDigits(s) == IF s # <<>> /\ Head(s) \in Digits THEN 1 + LeadingDigits(Tail(s)) ELSE 0

\* whether /word\s*\d+/i matches at position i of s, and where the match ends
NumberedAt(s, i, word) ==
    LET rest == TrimLeft(SubSeq(s, i + Len(word), Len(s)))
    IN  /\ i + Len(word) - 1 <= Len(s)
        /\ toLowerCase(SubSeq(s, i, i + Len(word) - 1)) = word
        /\ LeadingDigits(rest) > 0

NumberedEnd(s, i, word) ==
    LET rest == TrimLeft(SubSeq(s, i + Len(word), Len(s)))
    IN  Len(s) - Len(rest) + LeadingDigits(rest)

unitWords == {<<"u", "n", "i", "t">>, <<"c", "h", "a", "p", "t", "e", "r">>, <<"s", "e", "c", "t", "i", "o", "n">>, <<"l", "e", "s", "s", "o", "n">>}
gradeWord == <<"g", "r", "a", "d", "e">>
prefixes == {<<"i", "n", "t", "r", "o", "d", "u", "c", "t", "i", "o", "n", " ", "t", "o">>, <<"u", "n", "d", "e", "r", "s", "t", "a", "n", "d", "i", "n", "g">>, <<"b", "a", "s", "i", "c", "s", " ", "o", "f">>}

\* .replace(/^(unit|chapter|section|lesson)\s*\d+/i, '')
RemoveUnitNumber(topic) ==
    LET numbered == {w \in unitWords : NumberedAt(topic, 1, w)}
    IN  IF numbered = {} THEN topic
        ELSE SubSeq(topic, NumberedEnd(topic, 1, CHOOSE w \in numbered : TRUE) + 1,
                    Len(topic))

\* .replace(/grade\s*\d+/i, '')
RemoveGrade(s1) ==
    LET grades == {i \in 1..Len(s1) : NumberedAt(s1, i, gradeWord)}
        g == CHOOSE i \in grades : \A j \in grades : i <= j
    IN  IF grades = {} THEN s1
        ELSE SubSeq(s1, 1, g - 1) \o SubSeq(s1, NumberedEnd(s1, g, gradeWord) + 1, Len(s1))

\* .replace(/^(introduction to|understanding|basics of)/i, '')
RemovePrefix(s2) ==
    LET common == {p \in prefixes : Len(p) <= Len(s2) /\ toLowerCase(SubSeq(s2, 1, Len(p))) = p}
    IN  IF common = {} THEN s2
        ELSE SubSeq(s2, Len(CHOOSE p \in common : TRUE) + 1, Len(s2))

\* .map(word => word.charAt(0).toUpperCase() + word.slice(1).toLowerCase())
Capitalized(words) ==
    [i \in 1..Len(words) |->
        IF words[i] = <<>> THEN <<>>
        ELSE toUpperCase(<<Head(words[i])>>) \o toLowerCase(Tail(words[i]))]

\* cleanupTopic(topic)
cleanupTopic(topic) ==
    With(LAMBDA s1 :
         With(LAMBDA s2 :
              With(LAMBDA s3 :
                   With(LAMBDA words : Join(Capitalized(words), <<" ">>),
                        Split(Trim(s3), " ")),
                   RemovePrefix(s2)),
              RemoveGrade(s1)),
         RemoveUnitNumber(topic))

mathConcepts ==
    <<<<"f", "u", "n", "c", "t", "i", "o", "n">>, <<"e", "q", "u", "a", "t", "i", "o", "n">>, <<"e", "x", "p", "r", "e", "s", "s", "i", "o", "n">>, <<"p", "o", "l", "y", "n", "o", "m", "i", "a", "l">>,
      <<"e", "x", "p", "o", "n", "e", "n", "t", "i", "a", "l">>, <<"l", "o", "g", "a", "r", "i", "t", "h", "m">>, <<"t", "r", "i", "g", "o", "n", "o", "m", "e", "t", "r", "y">>, <<"g", "e", "o", "m", "e", "t", "r", "y">>,
      <<"p", "r", "o", "b", "a", "b", "i", "l", "i", "t", "y">>, <<"s", "t", "a", "t", "i", "s", "t", "i", "c", "s">>, <<"v", "e", "c", "t", "o", "r">>, <<"m", "a", "t", "r", "i", "x">>,
      <<"d", "e", "r", "i", "v", "a", "t", "i", "v", "e">>, <<"i", "n", "t", "e", "g", "r", "a", "l">>, <<"c", "a", "l", "c", "u", "l", "u", "s">>, <<"a", "l", "g", "e", "b", "r", "a">>>>

indicators ==
    <<<<"C", "h", "a", "p", "t", "e", "r">>, <<"U", "n", "i", "t">>, <<"T", "o", "p", "i", "c">>, <<"S", "e", "c", "t", "i", "o", "n">>,
      <<"L", "e", "s", "s", "o", "n">>, <<"I", "n", "t", "r", "o", "d", "u", "c", "t", "i", "o", "n", " ", "t", "o">>, <<"U", "n", "d", "e", "r", "s", "t", "a", "n", "d", "i", "n", "g">>>>

Mathematics == validSubjects[1]

\* line.replace(indicator, '').replace(/[:\-\d]/g, '').trim()
IndicatorTopic(line, indicator) ==
    Trim(Strip(RemoveFirst(line, indicator), {":", "-"} \cup Digits))

\* the words around the first concept of mathConcepts that is one of words;
\* <<>> when words holds none of them
ConceptTopic(words) ==
    LET concepts == {k \in 1..Len(mathConcepts) :
                        \E i \in 1..Len(words) : words[i] = mathConcepts[k]}
        concept == mathConcepts[CHOOSE k \in concepts : \A j \in concepts : k <= j]
        conceptIndex == CHOOSE i \in 1..Len(words) :
                            /\ words[i] = concept
                            /\ \A j \in 1..(i - 1) : words[j] # concept
        surroundingWords ==
            SubSeq(words, IF conceptIndex > 3 THEN conceptIndex - 3 ELSE 1,
                   IF conceptIndex + 3 < Len(words) THEN conceptIndex + 3 ELSE Len(words))
    IN  With(LAMBDA long :
                Join([i \in 1..Len(long) |-> toUpperCase(<<Head(long[i])>>) \o Tail(long[i])],
                     <<" ">>),
             SelectSeq(surroundingWords, LAMBDA w : Len(w) > 3))

HasConcept(words) ==
    \E k \in 1..Len(mathConcepts) : \E i \in 1..Len(words) : words[i] = mathConcepts[k]

\* the topic of the first line and indicator that give more than 3
\* characters; <<>> when there is none
LineTopic(lines) ==
    LET hits == {h \in (1..Len(lines)) \X (1..Len(indicators)) :
                    /\ Includes(lines[h[1]], indicators[h[2]])
                    /\ Len(IndicatorTopic(lines[h[1]], indicators[h[2]])) > 3}
        first == CHOOSE h \in hits :
                    \A o \in hits : h[1] < o[1] \/ (h[1] = o[1] /\ h[2] <= o[2])
    IN  IF hits # {} THEN IndicatorTopic(lines[first[1]], indicators[first[2]])
        ELSE <<>>

\* extractTopicKeywords(notesText, subject); <<>> is the empty string
extractTopicKeywords(notesText, subject) ==
    With(LAMBDA words :
            IF subject = Mathematics /\ HasConcept(words) THEN ConceptTopic(words)
            ELSE With(LAMBDA lines : LineTopic(lines), Split(notesText, "\n")),
         SplitWhiteSpace(toLowerCase(notesText)))

UnitLabel == <<"U", "n", "i", "t", ":">>
TopicLabel == <<"T", "o", "p", "i", "c", ":">>
SubtopicLabel == <<"S", "u", "b", "t", "o", "p", "i", "c", ":">>

\* s.startsWith(prefix)
StartsWith(s, prefix) == Len(prefix) <= Len(s) /\ SubSeq(s, 1, Len(prefix)) = prefix

\* lines.find(l => l.startsWith(label))?.replace(label, "").trim(); <<>> when
\* no line starts with the label
LabelledLine(lines, label) ==
    LET at == {i \in 1..Len(lines) : StartsWith(lines[i], label)}
    IN  IF at = {} THEN <<>>
        ELSE Trim(RemoveFirst(lines[CHOOSE i \in at : \A j \in at : i <= j], label))

\* JSON.stringify of a string
RECURSIVE Escaped(_)
Escaped(s) ==
    IF s = <<>> THEN <<>>
    ELSE (IF Head(s) \in {"\"", "\\"} THEN <<"\\", Head(s)>> ELSE <<Head(s)>>)
            \o Escaped(Tail(s))

JsonString(s) == <<"\"">> \o Escaped(s) \o <<"\"">>

General == <<"g", "e", "n", "e", "r", "a", "l">>

\* the validation of the non-empty trimmed lines of the reply
ValidatedTopic(lines) ==
    LET subject == lines[1]
        unit == LabelledLine(lines, UnitLabel)
        topic == LabelledLine(lines, TopicLabel)
        subtopic == LabelledLine(lines, SubtopicLabel)
    IN  IF Len(lines) < 3 THEN Completion("throw", <<>>)
        ELSE IF subject # Mathematics THEN Completion("throw", <<>>)
        ELSE IF unit = <<>> \/ Includes(toLowerCase(unit), General)
             THEN Completion("throw", <<>>)
        ELSE IF topic = <<>> \/ Includes(toLowerCase(topic), General)
             THEN Completion("throw", <<>>)
        ELSE IF subtopic = <<>> THEN Completion("throw", <<>>)
        ELSE Completion("text",
                        <<"{">> \o JsonString(<<"s", "u", "b", "j", "e", "c", "t">>) \o <<":">> \o JsonString(subject)
                          \o <<",">> \o JsonString(<<"u", "n", "i", "t">>) \o <<":">> \o JsonString(unit)
                          \o <<",">> \o JsonString(<<"t", "o", "p", "i", "c">>) \o <<":">> \o JsonString(topic)
                          \o <<",">> \o JsonString(<<"s", "u", "b", "t", "o", "p", "i", "c">>) \o <<":">>
                          \o JsonString(subtopic) \o <<"}">>)

\* generateText of lib/openrouter-api for a prompt that includes "Analyze
\* these": the reply is validated line by line and returned as JSON text
topicDetermination(rawContent) ==
    LET Lines(split) ==
            SelectSeq([i \in 1..Len(split) |-> Trim(split[i])], LAMBDA l : l # <<>>)
    IN  With(LAMBDA lines : ValidatedTopic(lines),
             With(LAMBDA split : Lines(split), Split(rawContent, "\n")))

\* what determineTopic receives from generateText: the client either hands
\* the reply over as it is or validates it first
TopicCompletion(response, validated) ==
    IF validated /\ response.kind = "text" THEN topicDetermination(response.text)
    ELSE response

\* determineTopic(notesText, subject) given the completion's reply
determineTopic(response, notesText, subject) ==
    LET Parsed(cleanResponse) ==
            LET unit == Field(cleanResponse, UnitLabel)
                topic == Field(cleanResponse, TopicLabel)
                fullTopic == unit \o <<" ", "-", " ">> \o topic
            IN  IF unit = <<>> \/ topic = <<>>
                THEN With(LAMBDA keywords :
                             IF keywords = <<>> THEN Throws ELSE Returns(keywords),
                          extractTopicKeywords(notesText, subject))
                ELSE Returns(cleanupTopic(fullTopic))
    IN  IF response.kind = "throw" THEN Throws
        ELSE With(LAMBDA cleanResponse : Parsed(cleanResponse),
                  Trim(Strip(response.text, {"'", "\""})))

\* `General ${subject}`
GeneralTopic(subject) == <<"G", "e", "n", "e", "r", "a", "l", " ">> \o subject

\* determineTopic of the revision that names a subtopic: it returns
\* `General ${subject}` where the other revisions throw
determineTopicGeneral(response, notesText, subject) ==
    LET Parsed(cleanResponse) ==
            LET unit == Field(cleanResponse, UnitLabel)
                topic == Field(cleanResponse, TopicLabel)
                subtopic == Field(cleanResponse, SubtopicLabel)
                withTopic == IF topic # <<>> /\ topic # unit
                             THEN unit \o <<" ", "-", " ">> \o topic ELSE unit
                fullTopic == IF subtopic # <<>> /\ subtopic # topic
                             THEN withTopic \o <<" ", "(">> \o subtopic \o <<")">>
                             ELSE withTopic
            IN  IF unit = <<>> \/ topic = <<>>
                THEN With(LAMBDA keywords :
                             IF keywords # <<>> THEN Returns(keywords)
                             ELSE Returns(GeneralTopic(subject)),
                          extractTopicKeywords(notesText, subject))
                ELSE Returns(cleanupTopic(fullTopic))
    IN  IF response.kind = "throw" THEN Returns(GeneralTopic(subject))
        ELSE With(LAMBDA cleanResponse : Parsed(cleanResponse),
                  Trim(Strip(response.text, {"'", "\""})))

(***************************************************************************)
(* Inputs                                                                  *)
(***************************************************************************)
\* the last distribution has a negative count (parseInt("-1", 10) is -1)
Distributions ==
    {Distribution(0, 0, 0, 0, 0), Distribution(1, 0, 0, 0, 0), Distribution(1, 1, 0, 0, 0),
     Distribution(51, 0, 0, 0, 0), Distribution(2, -1, 0, 0, 0)}

Request(d, notes, subject, topic, reply) ==
    [d |-> d, notes |-> notes, subject |-> subject, topic |-> topic, reply |-> reply]

\* the createQuiz calls: every distribution with every reply, and one call for
\* each way of failing before the quiz generation completion
Requests ==
    {Request(d, "text", "Biology", "Cells", r) : d \in Distributions, r \in Replies}
      \cup {Request(Distribution(1, 0, 0, 0, 0), n, "Biology", "Cells", Reply("throw", <<>>)) :
                n \in {"noFiles", "noText"}}
      \cup {Request(Distribution(1, 0, 0, 0, 0), "text", "throw", "Cells", Reply("throw", <<>>)),
            Request(Distribution(1, 0, 0, 0, 0), "text", "Biology", "throw", Reply("throw", <<>>))}

\* the id of the quiz created at the current time, and an id never created
QuizIds == {QuizId(0), <<"quiz", "none">>}
QuestionIds == {<<ToString(i)>> : i \in 1..MaxQuestions}

\* the answers a student submits; Undef: no answer under that question id
AnswerTexts == {Undef, <<" ">>, <<>>, OptA, Cell}
\* question "1" gets any of the texts; the later questions are all answered
\* with the same text or all left out
AnswerMaps ==
    {[id \in QuestionIds |-> IF id = <<"1">> THEN first ELSE rest] :
        first \in AnswerTexts, rest \in {Undef, Cell}}

AiReplies ==
    {AiReply("throw", FALSE, 0), AiReply("notJson", FALSE, 0),
     AiReply("badShape", FALSE, 0), AiReply("evaluation", TRUE, 10)}

\* the replies to a grading request: those above, a grade whose flag and
\* score disagree either way, and a score above 1
GradeReplies ==
    AiReplies \cup {AiReply("evaluation", TRUE, 5), AiReply("evaluation", FALSE, 10),
                    AiReply("evaluation", TRUE, 20)}

\* the texts of a grading request
KeyTexts == {Cell, <<"D", "N", "A">>, <<"t", "h", "e", " ", "c", "e", "l", "l">>}
StudentTexts ==
    {Undef, <<>>, <<" ">>, Cell, <<"C", "e", "l", "l">>, <<" ", "c", "e", "l", "l">>,
     <<"a", " ", "c", "e", "l", "l">>, <<"d", "n", "a">>, <<"x">>}

CheckRequest(questionId, questionText, studentAnswer, correctAnswer, questionType, ai) ==
    [questionId |-> questionId, questionText |-> questionText,
     studentAnswer |-> studentAnswer, correctAnswer |-> correctAnswer,
     questionType |-> questionType, ai |-> ai]

\* the grading requests: every pair of texts with every reply of the
\* completion, and one request for each other field left out
CheckRequests ==
    {CheckRequest(<<"1">>, TextQ, a, k, t, ai) :
        a \in StudentTexts, k \in KeyTexts, t \in {"multipleChoice", "shortAnswer"},
        ai \in GradeReplies}
      \cup {CheckRequest(<<>>, TextQ, Cell, Cell, "shortAnswer", AiReply("throw", FALSE, 0)),
            CheckRequest(<<"1">>, Undef, Cell, Cell, "shortAnswer", AiReply("throw", FALSE, 0)),
            CheckRequest(<<"1">>, TextQ, Cell, <<>>, "multipleChoice", AiReply("throw", FALSE, 0)),
            CheckRequest(<<"1">>, TextQ, Cell, Cell, "", AiReply("throw", FALSE, 0))}

\* the replies of the subject completion
SubjectResponses ==
    {Completion("throw", <<>>),
     Completion("text", <<>>),
     Completion("text", <<"B", "i", "o", "l", "o", "g", "y">>),
     Completion("text", <<"b", "i", "o", "l", "o", "g", "y">>),
     Completion("text", <<"\"", "B", "i", "o", "l", "o", "g", "y", "\"", ".">>),
     Completion("text", <<"P", "H", "Y", "S", "I", "C", "S", "\n">>),
     Completion("text", <<" ", "C", "o", "m", "p", "u", "t", "e", "r", " ", "S", "c", "i", "e", "n", "c", "e", " ">>),
     Completion("text", <<"c", "o", "m", "p", "u", "t", "e", "r", " ", "s", "c", "i", "e", "n", "c", "e">>),
     Completion("text", <<"H", "i", "s", "t", "\n", "o", "r", "y">>),
     Completion("text", <<"H", "e", "a", "l", "t", "h", "c", "a", "r", "e", ",", " ", "H", "i", "s", "t", "o", "r", "y">>),
     Completion("text", <<"M", "a", "t", "h">>),
     Completion("text", <<"S", "c", "i", "e", "n", "c", "e">>),
     Completion("text", <<"G", "e", "n", "e", "r", "a", "l", " ", "S", "t", "u", "d", "i", "e", "s">>),
     Completion("text", <<"\"", "G", "e", "n", "e", "r", "a", "l", " ", "S", "t", "u", "d", "i", "e", "s", "\"", ".">>),
     Completion("text", <<".", ",", "'">>)}

\* the replies of the topic completion
TopicResponses ==
    {Completion("throw", <<>>),
     Completion("text", <<"I", " ", "a", "m", " ", "n", "o", "t", " ", "s", "u", "r", "e", ".">>),
     Completion("text", <<"U", "n", "i", "t", ":", " ", "F", "u", "n", "c", "t", "i", "o", "n", "s", "\n", "T", "o", "p", "i", "c", ":", " ", "E", "x", "p", "o", "n", "e", "n", "t", "i", "a", "l", " ", "G", "r", "o", "w", "t", "h">>),
     Completion("text", <<"\"", "U", "n", "i", "t", ":", " ", "C", "e", "l", "l", "s", "\"", "\n", "\"", "T", "o", "p", "i", "c", ":", " ", "G", "r", "a", "d", "e", " ", "1", "0", " ", "M", "i", "t", "o", "s", "i", "s", "\"">>),
     Completion("text", <<"U", "n", "i", "t", ":", " ", "U", "n", "i", "t", " ", "3", " ", "C", "e", "l", "l", "s", "\n", "T", "o", "p", "i", "c", ":", " ", "M", "i", "t", "o", "s", "i", "s">>),
     Completion("text", <<"U", "n", "i", "t", ":", " ", "F", "u", "n", "c", "t", "i", "o", "n", "s">>),
     Completion("text", <<"T", "o", "p", "i", "c", ":", " ", "M", "i", "t", "o", "s", "i", "s">>),
     Completion("text", <<"u", "n", "i", "t", ":", " ", "C", "e", "l", "l", "s", "\n", "t", "o", "p", "i", "c", ":", " ", "M", "i", "t", "o", "s", "i", "s">>),
     Completion("text", <<"U", "n", "i", "t", ":", " ", "\n", "T", "o", "p", "i", "c", ":", " ", "M", "i", "t", "o", "s", "i", "s">>),
     Completion("text", <<"U", "n", "i", "t", ":", " ", "G", "e", "n", "e", "r", "a", "l", "\n", "T", "o", "p", "i", "c", ":", " ", "G", "e", "n", "e", "r", "a", "l", " ", "B", "i", "o", "l", "o", "g", "y">>),
     Completion("text", <<"U", "n", "i", "t", ":", " ", "C", "e", "l", "l", "s", "\n", "T", "o", "p", "i", "c", ":", " ", "a", " ", "g", "e", "n", "e", "r", "a", "l", " ", "r", "e", "v", "i", "e", "w">>),
     Completion("text", <<"U", "n", "i", "t", ":", " ", "G", "E", "N", "E", "R", "A", "L", " ", "S", "c", "i", "e", "n", "c", "e", "\n", "T", "o", "p", "i", "c", ":", " ", "M", "i", "t", "o", "s", "i", "s">>),
     Completion("text", <<"M", "a", "t", "h", "e", "m", "a", "t", "i", "c", "s", "\n", "U", "n", "i", "t", ":", " ", "F", "u", "n", "c", "t", "i", "o", "n", "s", "\n", "T", "o", "p", "i", "c", ":", " ", "E", "x", "p", "o", "n", "e", "n", "t", "i", "a", "l", " ", "F", "u", "n", "c", "t", "i", "o", "n", "s", "\n", "S", "u", "b", "t", "o", "p", "i", "c", ":", " ", "G", "r", "o", "w", "t", "h">>),
     Completion("text", <<"M", "a", "t", "h", "e", "m", "a", "t", "i", "c", "s", "\n", "U", "n", "i", "t", ":", " ", "G", "e", "n", "e", "r", "a", "l", " ", "M", "a", "t", "h", "e", "m", "a", "t", "i", "c", "s", "\n", "T", "o", "p", "i", "c", ":", " ", "F", "u", "n", "c", "t", "i", "o", "n", "s", "\n", "S", "u", "b", "t", "o", "p", "i", "c", ":", " ", "G", "r", "o", "w", "t", "h">>)}

\* the text of the uploaded notes
NotesTexts ==
    {<<>>,
     <<"c", "e", "l", "l", "s", " ", "d", "i", "v", "i", "d", "e", " ", "b", "y", " ", "m", "i", "t", "o", "s", "i", "s">>,
     <<"U", "n", "i", "t", " ", "1">>,
     <<"C", "h", "a", "p", "t", "e", "r", " ", "3", ":", " ", "C", "e", "l", "l", " ", "D", "i", "v", "i", "s", "i", "o", "n", "\n", "c", "e", "l", "l", "s", " ", "d", "i", "v", "i", "d", "e">>,
     <<"t", "h", "e", " ", "e", "x", "p", "o", "n", "e", "n", "t", "i", "a", "l", " ", "f", "u", "n", "c", "t", "i", "o", "n", " ", "g", "r", "o", "w", "s", " ", "f", "a", "s", "t">>}

\* the subjects determineTopic is called with
Subjects == {validSubjects[1], validSubjects[4]}

\* determineTopic over the inputs (tables, so that each outcome is computed
\* once)
determinedTopics ==
    [r \in TopicResponses, n \in NotesTexts, s \in Subjects |-> determineTopic(r, n, s)]

determinedTopicsGeneral ==
    [c \in {TopicCompletion(r, v) : r \in TopicResponses, v \in BOOLEAN},
     n \in NotesTexts, s \in Subjects |-> determineTopicGeneral(c, n, s)]

determineTopicCall(response, notesText, subject) ==
    /\ applied' = Applied("determineTopic", response, notesText, subject,
                          determinedTopics[response, notesText, subject])
    /\ UNCHANGED <<storeVars, clientVars, grade, asyncVars>>

\* the revision that names a subtopic prompts with "Analyze these"
determineTopicGeneralCall(response, validated, notesText, subject) ==
    /\ applied' = Applied("determineTopicGeneral", TopicCompletion(response, validated),
                          notesText, subject,
                          determinedTopicsGeneral[TopicCompletion(response, validated), notesText, subject])
    /\ UNCHANGED <<storeVars, clientVars, grade, asyncVars>>

\* the "process quiz response" block of the revision that validates the
\* distribution: TRUE when it reaches the store step
ReplyAcceptedStrict(reply, d) ==
    /\ reply.kind = "quiz"
    /\ Len(reply.questions) = numQuestions(d)
    /\ questionsByCategory(reply.questions) = d
    /\ \A i \in 1..Len(reply.questions) :
          /\ reply.questions[i].text # Undef
          /\ reply.questions[i].answer # Undef

\* createQuiz(formData) of the revision that validates the distribution.
\* notes: what the uploaded files yield; subjectResponse, topicResponse: what
\* the two classification completions return; notesText: the text of the
\* notes; reply: what the quiz generation completion returns.
createQuizStrict(d, notes, subjectResponse, topicResponse, notesText, reply) ==
    LET subject == determineSubjectDefault(subjectResponse).text
        topic == determinedTopicsGeneral[topicResponse, notesText, subject].text
        failedAt ==
            CASE numQuestions(d) = 0 -> "counts"
              [] numQuestions(d) > 50 -> "counts"
              [] notes = "noFiles" -> "notes"
              [] reply.kind = "throw" -> "generate"
              [] ~ReplyAcceptedStrict(reply, d) -> "process"
              [] OTHER -> "none"
        aiCalls == IF failedAt \in {"counts", "notes"} THEN 0 ELSE 3
        quizId == QuizId(now)
        questions == ConvertedQuestions[reply]
        quiz == [subject |-> subject, topic |-> topic, questions |-> questions,
                 totalQuestions |-> Len(questions), results |-> NoResults]
    IN  /\ Len(pastQuizzesStore) < MaxCreated
        /\ IF failedAt = "none"
           THEN /\ quizStore' = (quizId :> quiz)
                /\ pastQuizzesStore' = Append(pastQuizzesStore, quizId)
                /\ call' = Call("createQuiz", TRUE, quizId, d, NoAnswers, NoResults, aiCalls)
           ELSE /\ quizStore' = EmptyStore
                /\ UNCHANGED pastQuizzesStore
                /\ call' = Call("createQuiz", FALSE, <<>>, d, NoAnswers, NoResults, aiCalls)
        /\ applied' = [fn |-> "createQuiz", notes |-> notes,
                       subjectResponse |-> subjectResponse,
                       topicResponse |-> topicResponse, notesText |-> notesText,
                       subject |-> subject]
        /\ UNCHANGED <<quizFile, now, clientVars, grade, asyncVars>>

StrictRequest(d, notes, subjectResponse, topicResponse, notesText, reply) ==
    [d |-> d, notes |-> notes, subjectResponse |-> subjectResponse,
     topicResponse |-> topicResponse, notesText |-> notesText, reply |-> reply]

\* the replies of the subject completion to a createQuiz call: none, an empty
\* one, and two subjects
SubjectReplies ==
    {Completion("throw", <<>>), Completion("text", <<>>),
     Completion("text", validSubjects[1]), Completion("text", validSubjects[4])}

\* the createQuiz calls of the revision that validates the distribution:
\* every distribution with every quiz reply, and every classification with
\* one distribution and the reply that matches it
StrictRequests ==
    {StrictRequest(d, "text", Completion("text", validSubjects[4]),
                   Completion("throw", <<>>), <<>>, r) :
        d \in Distributions, r \in Replies}
      \cup {StrictRequest(Distribution(1, 0, 0, 0, 0), n, sr, tr, nt,
                          Reply("quiz", Numbered(<<mcGood>>))) :
                n \in {"text", "noFiles"}, sr \in SubjectReplies,
                tr \in {TopicCompletion(t, v) : t \in TopicResponses, v \in BOOLEAN},
                nt \in NotesTexts}

\* the sizes of the quizzes whose score is computed on its own, and how many
\* of the answers may be graded one half
QuizSizes == {1, 2, 4, 20, 40}
MaxPartial == 1

\* the grades of a quiz: how many answers scored 1, one half and 0
Grades(correct, partial, wrong) == [correct |-> correct, partial |-> partial, wrong |-> wrong]

GradeCounts ==
    {Grades(n - p - w, p, w) : <<n, p, w>> \in
        {t \in QuizSizes \X (0..MaxPartial) \X (0..40) : t[2] + t[3] <= t[1]}}

\* the "calculate overall score" step of evaluateQuizAnswers over those
\* grades (a table, so that each score is computed once)
overallScores ==
    [g \in GradeCounts |->
        OverallScore(10 * g.correct + 5 * g.partial, g.correct + g.partial + g.wrong)]

overallScoreCall(g) ==
    /\ applied' = [fn |-> "overallScore", grades |-> g, outcome |-> overallScores[g]]
    /\ UNCHANGED <<storeVars, clientVars, grade, asyncVars>>

\* one application of generateOverallFeedback
generateOverallFeedbackCall(score) ==
    /\ applied' = [fn |-> "generateOverallFeedback", score |-> score,
                   outcome |-> generateOverallFeedback(score)]
    /\ UNCHANGED <<storeVars, clientVars, grade, asyncVars>>

\* the texts handed to convertLatexToSymbols: every string of at most
\* MaxTextLen characters of LatexChars, and some longer ones
MaxTextLen == 4
LatexChars == {BS, "i", "n", "f", "p", "m", " "}

LatexTexts ==
    SeqsUpTo(LatexChars, MaxTextLen)
      \cup {<<"\\", "i", "n", "\\", "i", "n">>,
            <<"\\", "i", "n", "f", "t", "y">>,
            <<"\\", "i", "n", "\\", "i", "n", "f", "t", "y">>,
            <<"\\", "\\", "i", "n", "f", "t", "y">>,
            <<"x", " ", "\\", "i", "n", " ", "\\", "m", "a", "t", "h", "b", "b", "{", "R", "}">>,
            <<"\\", "p", "i", " ", "\\", "n", "e", "q", " ", "\\", "p", "m">>,
            <<"\\", "s", "u", "b", "s", "e", "t", "\\", "s", "u", "p", "s", "e", "t">>,
            <<"\\", "R", "i", "g", "h", "t", "a", "r", "r", "o", "w", "\\", "r", "i", "g", "h", "t", "a", "r", "r", "o", "w">>}

\* convertLatexToSymbols(text), and what it makes of its own result
convertLatexToSymbolsCall ==
    /\ applied.fn = "text"
    /\ applied' = [fn |-> "convertLatexToSymbols", text |-> applied.text,
                   result |-> convertLatexToSymbols(applied.text)]
    /\ UNCHANGED <<storeVars, clientVars, grade, asyncVars>>

convertLatexToSymbolsAgain ==
    /\ applied.fn = "convertLatexToSymbols"
    /\ applied' = [fn |-> "convertLatexToSymbols", text |-> applied.result,
                   result |-> convertLatexToSymbols(applied.result)]
    /\ UNCHANGED <<storeVars, clientVars, grade, asyncVars>>

(***************************************************************************)
(* Specifications                                                          *)
(***************************************************************************)
ClientInit ==
    /\ gt_pc = "idle"
    /\ gt_opts = [maxRetries |-> DefaultMaxRetries, responseFormat |-> "text"]
    /\ retryCount = 0
    /\ lastError = NoError
    /\ attempts = <<>>
    /\ waits = <<>>
    /\ gt_result = [ok |-> FALSE, text |-> <<>>, error |-> NoError]

\* the module as loaded with no data file; the file system may be read-only
StoreInit ==
    /\ quizStore = EmptyStore
    /\ pastQuizzesStore = <<>>
    /\ quizFile \in {[exists |-> FALSE, writable |-> w, quizzes |-> EmptyStore,
                      pastQuizzes |-> <<>>] : w \in BOOLEAN}
    /\ now = 0
    /\ call = Call("none", TRUE, <<>>, NoDistribution, NoAnswers, NoResults, 0)

NoGrade ==
    GradeCall("none", "", <<>>, <<>>, AiReply("throw", FALSE, 0),
              GradeResponse(0, FALSE, 0, FALSE, ""), 0)

CheckInit == grade = NoGrade

NoApplication == Applied("none", Completion("throw", <<>>), <<>>, <<>>, Throws)

ClassifyInit == applied = NoApplication

\* no call in flight, no answer selected
AsyncInit ==
    /\ pending = {}
    /\ selectedAnswers = <<>>

Init == ClientInit /\ StoreInit /\ CheckInit /\ ClassifyInit /\ AsyncInit

ClientNext ==
    \/ \E m \in 0..MaxRetriesOpt, fmt \in {"text", "json"}, apiKey \in BOOLEAN :
            generateTextCall(m, fmt, apiKey)
    \/ \E o \in Outcomes : generateTextAttempt(o)

SpecClient == Init /\ [][ClientNext]_vars

Next ==
    \/ \E r \in Requests : createQuiz(r.d, r.notes, r.subject, r.topic, r.reply)
    \/ \E id \in QuizIds : getQuiz(id)
    \/ \E id \in QuizIds, answers \in AnswerMaps, ai \in AiReplies :
            submitQuizAnswers(id, answers, ai)
    \/ \E id \in QuizIds : getQuizResults(id)

Spec == Init /\ [][Next]_vars

BatchNext ==
    \/ \E r \in Requests : createQuizClearing(r.d, r.notes, r.subject, r.topic, r.reply)
    \/ \E id \in QuizIds, answers \in AnswerMaps, ai \in AiReplies :
            submitQuizAnswersBatch(id, answers, ai)

SpecBatch == Init /\ [][BatchNext]_vars

CheckNext ==
    \/ \E r \in CheckRequests :
            POST(r.questionId, r.questionText, r.studentAnswer, r.correctAnswer,
                 r.questionType, r.ai)
    \/ \E r \in CheckRequests :
            checkAnswerAction(r.questionId, r.studentAnswer, r.correctAnswer,
                              r.questionType, r.ai)

SpecCheck == Init /\ [][CheckNext]_vars

ClassifyNext ==
    \/ \E r \in SubjectResponses : determineSubjectCall(r)
    \/ \E r \in SubjectResponses : determineSubjectCleanedCall(r)
    \/ \E r \in TopicResponses, n \in NotesTexts, s \in Subjects : determineTopicCall(r, n, s)
    \/ \E r \in TopicResponses, v \in BOOLEAN, n \in NotesTexts, s \in Subjects :
            determineTopicGeneralCall(r, v, n, s)

SpecClassify == Init /\ [][ClassifyNext]_vars

\* the createQuiz calls that overlap: one that stores a quiz of one question,
\* one that stores a quiz of two, one whose generation completion throws
OverlapRequests ==
    {Request(Distribution(1, 0, 0, 0, 0), "text", "Biology", "Cells", r) :
        r \in {Reply("quiz", Numbered(<<mcGood>>)), Reply("quiz", Numbered(<<mcGood, saKnow>>)),
               Reply("throw", <<>>)}}

OverlapNext ==
    \/ \E caller \in 1..MaxPending, r \in OverlapRequests :
            createQuizAwait(caller, r.d, r.notes, r.subject, r.topic, r.reply)
    \/ \E p \in pending : createQuizResume(p)
    \/ Tick

SpecOverlap == Init /\ [][OverlapNext]_vars

\* the selections of the user on the quiz page
PageSelections ==
    {<<q, t>> : q \in {<<"1">>, <<"2">>, <<"3">>}, t \in {OptA, OptB, Cell}}

PageNext ==
    \/ \E s \in PageSelections : handleAnswerSelect(s[1], s[2])
    \/ \E p \in pending : checkAnswerThen(p)
    \/ \E p \in pending : checkAnswerCatch(p)

SpecPage == Init /\ [][PageNext]_vars

StrictNext ==
    \E r \in StrictRequests :
        createQuizStrict(r.d, r.notes, r.subjectResponse, r.topicResponse, r.notesText, r.reply)

SpecStrict == Init /\ [][StrictNext]_vars

FeedbackNext == \E score \in 0..MaxOverallScore : generateOverallFeedbackCall(score)

SpecFeedback == Init /\ [][FeedbackNext]_vars

ScoreNext == \E g \in GradeCounts : overallScoreCall(g)

SpecScore == Init /\ [][ScoreNext]_vars

\* a text to normalize is at hand
NormalizeInit ==
    /\ ClientInit /\ StoreInit /\ CheckInit /\ AsyncInit
    /\ applied \in {[fn |-> "text", text |-> t] : t \in LatexTexts}

NormalizeNext == convertLatexToSymbolsCall \/ convertLatexToSymbolsAgain

SpecNormalize == NormalizeInit /\ [][NormalizeNext]_vars

(***************************************************************************)
(* Claim about the quiz page (checked under SpecPage)                      *)
(***************************************************************************)
\* the question of the page with that id
PageQuestion(questionId) == FindQuestion(questionId)[1]

\* C28: once every pending answer check has resolved, the answer text kept
\* for each question is the user's latest selection for it, and the score,
\* correctness and feedback kept with it are those computed for that text,
\* in whatever order the responses arrived.
C28_LatestAnswerGraded ==
    pending = {} =>
        \A q \in DOMAIN selectedAnswers :
            /\ selectedAnswers[q].text = call.answers[q]
            /\ selectedAnswers[q].checked =>
                  selectedAnswers[q] =
                      CheckedAnswer(selectedAnswers[q].text,
                                    CheckResult(PageQuestion(q), selectedAnswers[q].text))

(***************************************************************************)
(* Claim about createQuiz and the classification of the notes (checked     *)
(* under SpecStrict)                                                       *)
(***************************************************************************)
\* the last createQuiz call got as far as the classification of the notes
ReachedClassification ==
    /\ call.op = "createQuiz"
    /\ applied.fn = "createQuiz"
    /\ numQuestions(call.d) \in 1..50
    /\ applied.notes = "text"

\* the subject completion failed or replied no subject of the enumeration
SubjectFailed == ~determineSubject(applied.subjectResponse).ok

\* the topic completion failed, or its reply names no unit and topic and the
\* notes give no keywords
TopicFailed ==
    ~determineTopic(applied.topicResponse, applied.notesText, applied.subject).ok

\* C22: when the subject or the topic classification of a createQuiz call
\* fails, the call fails, makes no quiz generation call (at most the two
\* classification calls) and stores no quiz.
C22_ClassificationFailureIsFatal ==
    (ReachedClassification /\ (SubjectFailed \/ TopicFailed)) =>
        /\ ~call.ok
        /\ call.aiCalls <= 2
        /\ QuizId(now) \notin DOMAIN quizStore

(***************************************************************************)
(* Claims about the completion client (checked under SpecClient)           *)
(***************************************************************************)
TransportClasses == {"status429", "http", "network"}
MalformedClasses == {"invalidFormat", "jsonParse"}
LastAttempt == attempts[Len(attempts)]

\* C3: a generateText call makes at most maxRetries + 1 HTTP attempts (4 with
\* the default maxRetries = 3) whatever the endpoint answers, and once it has
\* made that many it has returned or thrown.
C3_BoundedAttempts ==
    /\ Len(attempts) <= gt_opts.maxRetries + 1
    /\ (gt_opts.maxRetries = DefaultMaxRetries => Len(attempts) <= 4)
    /\ (Len(attempts) = gt_opts.maxRetries + 1 => gt_pc \in {"returned", "thrown"})

C3_Witness ==
    /\ gt_pc = "thrown"
    /\ gt_opts.maxRetries = DefaultMaxRetries
    /\ Len(attempts) = 4
    /\ {attempts[i] : i \in 1..4} = {"status429", "http", "network", "bodyParse"}

\* C9: a response without the choice/message/content envelope, or JSON mode
\* finding no JSON object, ends the call at once with that error; no further
\* HTTP attempt follows it.
C9_MalformedNeverRetried ==
    \A i \in 1..Len(attempts) :
        attempts[i] \in MalformedClasses =>
            /\ i = Len(attempts)
            /\ gt_pc = "thrown"
            /\ gt_result.error.kind = attempts[i]

\* C10: when every attempt of a call ended in a transport failure (429, other
\* non-success status, network exception) the error thrown reports the
\* transport failure of the last attempt.
C10_TransportErrorSurfaced ==
    (/\ gt_pc = "thrown"
     /\ attempts # <<>>
     /\ \A i \in 1..Len(attempts) : attempts[i] \in TransportClasses)
    => /\ gt_result.error.kind \in {"http", "network"}
       /\ (LastAttempt = "network" => gt_result.error.kind = "network")
       /\ (LastAttempt = "http" => gt_result.error.kind = "http")
       /\ (LastAttempt = "status429" => gt_result.error.status = 429)

\* C11: after a 429 response carrying retry-after: N the call waits at least N
\* seconds before its next attempt, and when the attempt that follows a 429
\* succeeds, its content is what the call returns.
C11_RetryAfterHonoured ==
    [][/\ \A o \in RateLimited :
            (generateTextAttempt(o) /\ o.retryAfter # NoHeader)
                => /\ Len(waits') = Len(waits) + 1
                   /\ waits'[Len(waits')] >= o.retryAfter
       /\ (/\ gt_pc = "running"
           /\ attempts # <<>>
           /\ LastAttempt = "status429"
           /\ Len(attempts') = Len(attempts) + 1
           /\ attempts'[Len(attempts')] = "ok")
            => /\ gt_pc' = "returned"
               /\ gt_result'.ok
               /\ gt_result'.error = NoError]_vars

\* 429 with retry-after: 2, a wait of 2 s, success on attempt 2 of 4
C11_Witness ==
    /\ gt_pc = "returned"
    /\ gt_opts.maxRetries = DefaultMaxRetries
    /\ attempts = <<"status429", "ok">>
    /\ MaxRetryAfter = 2
    /\ waits = <<MaxRetryAfter>>
    /\ gt_result.ok

\* the seconds one call has slept so far
RECURSIVE SumSeq(_)
SumSeq(q) == IF q = <<>> THEN 0 ELSE Head(q) + SumSeq(Tail(q))

\* the most the exponential backoff alone can add up to: one wait of 2^rc
\* seconds for every rc in 0..maxRetries
BackoffCeiling(maxRetries) == 2^(maxRetries + 1) - 1

\* C25: the total time one generateText call spends waiting between attempts
\* stays under a ceiling fixed by maxRetries alone (the sum of the backoff
\* waits), whatever statuses and retry-after values the server sends.
C25_TotalWaitBounded ==
    SumSeq(waits) <= BackoffCeiling(gt_opts.maxRetries)

\* C26: without a retry-after header (429 without it, another non-success
\* status, a network exception) the wait before the k-th retry of a call is
\* 2^(k-1) seconds: 1 s, 2 s, 4 s with the default maxRetries = 3.
C26_ExponentialBackoff ==
    [][(/\ Len(waits') = Len(waits) + 1
        /\ \E o \in Outcomes : o.retryAfter = NoHeader /\ generateTextAttempt(o))
        => /\ waits'[Len(waits')] = 2^(Len(waits') - 1)
           /\ (/\ gt_opts.maxRetries = DefaultMaxRetries
               /\ Len(waits') = 3
               /\ \A k \in 1..2 : waits[k] = 2^(k - 1))
                => waits' = <<1, 2, 4>>]_vars

\* a 429 without the header, a 500 and a network exception, each followed by
\* a retry: waits of 1 s, 2 s and 4 s
C26_Witness ==
    /\ gt_opts.maxRetries = DefaultMaxRetries
    /\ Len(attempts) >= 3
    /\ attempts[1] = "status429"
    /\ attempts[2] = "http"
    /\ attempts[3] = "network"
    /\ waits = <<1, 2, 4>>



\* JSON.parse(s) succeeds and yields an object.  Over Chars the only JSON
\* objects are the empty ones: braces around white space
ParsesAsJsonObject(s) ==
    /\ Len(s) >= 2
    /\ s[1] = "{"
    /\ s[Len(s)] = "}"
    /\ \A i \in 2..(Len(s) - 1) : s[i] \in WhiteSpace

\* C17: in JSON mode generateText returns only text that parses as a JSON
\* object; whatever does not parse makes it fail instead.
C17_JsonModeReturnsJson ==
    (gt_pc = "returned" /\ gt_opts.responseFormat = "json")
        => ParsesAsJsonObject(gt_result.text)

(***************************************************************************)
(* Claims about createQuiz (checked under Spec)                            *)
(***************************************************************************)
\* the questions of the quiz the last call was about
CallQuestions == quizStore[call.quizId].questions

\* C1: whenever createQuiz returns a quiz id, the stored quiz has exactly
\* sum(d) questions and, for each category, exactly d[category] questions of
\* that category (a reply with other counts is not stored).
C1_DistributionHonoured ==
    (call.op = "createQuiz" /\ call.ok) =>
        /\ call.quizId \in DOMAIN quizStore
        /\ Len(CallQuestions) = numQuestions(call.d)
        /\ questionsByCategory(CallQuestions) = call.d

\* exactly 4 options, pairwise distinct, the answer among them
WellFormedChoice(q) ==
    /\ q.options # NoOptions
    /\ Len(q.options) = 4
    /\ \A i, j \in 1..Len(q.options) : i # j => q.options[i] # q.options[j]
    /\ \E i \in 1..Len(q.options) : q.options[i] = q.answer

\* C2: every multiple-choice question of every stored quiz has exactly 4
\* options, pairwise distinct, one of which is the question's answer.
C2_ChoicesWellFormed ==
    \A id \in DOMAIN quizStore :
        \A i \in 1..Len(quizStore[id].questions) :
            quizStore[id].questions[i].type = "multipleChoice"
                => WellFormedChoice(quizStore[id].questions[i])

(***************************************************************************)
(* Claims about submitQuizAnswers (checked under Spec)                     *)
(***************************************************************************)
\* C4: submitQuizAnswers for a quiz of the store returns a result, whatever
\* the completion service does during grading; it fails only for a quiz that
\* is not in the store.
C4_SubmitAlwaysReturns ==
    (call.op = "submitQuizAnswers" /\ call.quizId \in DOMAIN quizStore) =>
        /\ call.ok
        /\ call.result.present

\* a submission returned although the grading of a short answer had failed
C4_Witness ==
    /\ call.op = "submitQuizAnswers"
    /\ call.ok
    /\ \E i \in 1..Len(call.result.answers) :
          /\ call.result.answers[i].graded.feedback = "Error evaluating answer"
          /\ ~Blank(call.result.answers[i].graded.userAnswer)

\* C8: after submitQuizAnswers(quizId, answers) returned result R, the quiz
\* stored under quizId carries results equal to R.
C8_ResultsStored ==
    (call.op = "submitQuizAnswers" /\ call.ok) =>
        /\ call.quizId \in DOMAIN quizStore
        /\ quizStore[call.quizId].results = call.result

\* the texts of the questions whose entry in the result is graded `correct`
GradedTexts(result, qs, correct) ==
    {qs[i].text : i \in {i \in 1..Len(qs) :
                            \E k \in 1..Len(result.answers) :
                                /\ result.answers[k].id = qs[i].id
                                /\ result.answers[k].graded.isCorrect = correct}}

\* the list names exactly the elements of the set, each once
ListsExactly(list, set) ==
    /\ {list[i] : i \in 1..Len(list)} = set
    /\ \A i, j \in 1..Len(list) : list[i] = list[j] => i = j

\* C29: in every result an evaluation produces, reviewTopics is exactly the
\* duplicate-free set of the texts of the questions graded isCorrect = false,
\* and strengths exactly that of the questions graded isCorrect = true.
C29_TopicsFromGrades ==
    (/\ call.op \in {"submitQuizAnswers", "submitQuizAnswersBatch"}
     /\ call.ok
     /\ call.quizId \in DOMAIN quizStore
     /\ call.result.present) =>
        /\ ListsExactly(call.result.overall.reviewTopics,
                        GradedTexts(call.result, CallQuestions, FALSE))
        /\ ListsExactly(call.result.overall.strengths,
                        GradedTexts(call.result, CallQuestions, TRUE))

\* C20: every stored quiz has non-empty, pairwise distinct question ids, and
\* the per-question map of a result returned by submitQuizAnswers has exactly
\* one entry for each question of the quiz (its size is the question count).
C20_DistinctQuestionIds ==
    /\ \A id \in DOMAIN quizStore :
          LET questions == quizStore[id].questions
          IN  /\ \A i \in 1..Len(questions) : questions[i].id # <<>>
              /\ \A i, j \in 1..Len(questions) :
                    questions[i].id = questions[j].id => i = j
    /\ (call.op = "submitQuizAnswers" /\ call.ok) =>
          Len(call.result.answers) = Len(quizStore[call.quizId].questions)

\* C24: a createQuiz call that returns an id returns one under which no quiz
\* was stored before it, also when calls overlap (checked under SpecOverlap).
C24_FreshQuizId ==
    [][(Cardinality(pending') < Cardinality(pending) /\ call'.op = "createQuiz" /\ call'.ok) =>
          call'.quizId \notin DOMAIN quizStore]_vars

\* the five counts are non-negative and their total is between 1 and 50
ValidCounts(d) ==
    /\ d.multipleChoice >= 0 /\ d.knowledge >= 0 /\ d.thinking >= 0
    /\ d.application >= 0 /\ d.communication >= 0
    /\ numQuestions(d) \in 1..50

\* C23: a createQuiz call whose counts are not five non-negative integers
\* with a total from 1 to 50 fails without a completion call and leaves the
\* store as it was.
C23_InvalidCountsRejected ==
    [][(call'.op = "createQuiz" /\ ~ValidCounts(call'.d)) =>
          /\ ~call'.ok
          /\ call'.aiCalls = 0
          /\ quizStore' = quizStore]_vars

\* C27: createQuiz, whether it succeeds or fails, never removes or changes a
\* quiz already in the store: the id an earlier createQuiz returned stays in
\* the store with its quiz after any later createQuiz call, and a failed
\* createQuiz leaves the store exactly as it was.
C27_CreateQuizKeepsStore ==
    [][call'.op = "createQuiz"
        => /\ \A id \in DOMAIN quizStore :
                /\ id \in DOMAIN quizStore'
                /\ quizStore'[id] = quizStore[id]
           /\ ~call'.ok => /\ quizStore' = quizStore
                           /\ pastQuizzesStore' = pastQuizzesStore]_vars

\* C21: a getQuiz, submitQuizAnswers or getQuizResults call leaves the
\* questions (every field of each) and the metadata of every stored quiz as
\* they were; only the results of a quiz may change.
C21_StoredQuizImmutable ==
    [][call'.op \in {"getQuiz", "submitQuizAnswers", "getQuizResults"} =>
          \A id \in DOMAIN quizStore :
              /\ id \in DOMAIN quizStore'
              /\ quizStore'[id].questions = quizStore[id].questions
              /\ quizStore'[id].subject = quizStore[id].subject
              /\ quizStore'[id].topic = quizStore[id].topic
              /\ quizStore'[id].totalQuestions = quizStore[id].totalQuestions]_vars

(***************************************************************************)
(* Claim about the one-call evaluation of the earlier revision (checked    *)
(* under SpecBatch)                                                        *)
(***************************************************************************)
\* C5: a multiple-choice question whose submitted answer equals the
\* question's (non-blank) answer is graded score 1 and isCorrect true, and a
\* quiz of multiple-choice questions only is graded without a completion call.
C5_ExactChoiceScoresOne ==
    (call.op = "submitQuizAnswersBatch" /\ call.quizId \in DOMAIN quizStore) =>
        \A i \in 1..Len(CallQuestions) :
            LET q == CallQuestions[i]
            IN  (/\ q.type = "multipleChoice"
                 /\ ~Blank(q.answer)
                 /\ AnswerOf(call.answers, q.id) = q.answer)
                => /\ \E j \in 1..Len(call.result.answers) :
                        /\ call.result.answers[j].id = q.id
                        /\ call.result.answers[j].graded.score = 10
                        /\ call.result.answers[j].graded.isCorrect
                   /\ ((\A k \in 1..Len(CallQuestions) :
                            CallQuestions[k].type = "multipleChoice")
                        => call.aiCalls = 0)

(***************************************************************************)
(* Claims about the grading of one answer (checked under SpecCheck)        *)
(***************************************************************************)
\* C6: grading a question whose answer is missing, empty or whitespace-only
\* yields score 0, isCorrect false and feedback "No answer provided", and
\* issues no completion call.
C6_BlankAnswerShortCircuits ==
    (grade.op # "none" /\ Blank(AnswerOf(<<grade.studentAnswer>>, 1))) =>
        /\ grade.response.graded
        /\ grade.response.score = 0
        /\ ~grade.response.correct
        /\ grade.response.feedback = "No answer provided"
        /\ grade.aiCalls = 0

\* C7: when a short answer is graded and the completion call throws or its
\* output cannot be parsed or validated, the grade returned is the fallback:
\* score 1 for a case-insensitive match, else 0.5 when a word of at least 4
\* characters of the expected answer occurs in the answer, else 0.
C7_FallbackOnAiFailure ==
    (/\ grade.op # "none"
     /\ grade.questionType = "shortAnswer"
     /\ ~Blank(AnswerOf(<<grade.studentAnswer>>, 1))
     /\ grade.aiCalls = 1
     /\ grade.ai.kind # "evaluation")
    => /\ grade.response.graded
       /\ grade.response.score = FallbackScore(grade.studentAnswer, grade.correctAnswer)


\* C18: a graded short answer is correct exactly when its score is at least
\* 0.6, whether the grade is the completion's or the fallback's.
C18_CorrectIffScoreAtLeastThreshold ==
    (grade.op # "none" /\ grade.questionType = "shortAnswer" /\ grade.response.graded)
        => (grade.response.correct <=> grade.response.score >= 6)

\* C19: whatever the completion replies, the score of a graded answer lies
\* between 0 and 1, and is 0 or 1 for multiple choice.
C19_ScoreInRange ==
    (grade.op # "none" /\ grade.response.graded)
        => /\ grade.response.score \in 0..10
           /\ grade.questionType = "multipleChoice" => grade.response.score \in {0, 10}

(***************************************************************************)
(* Claims about the classification of the notes (SpecClassify)             *)
(***************************************************************************)
SubjectCalls == {"determineSubject", "determineSubjectCleaned"}

\* C12: determineSubject returns only a member of the closed subject
\* enumeration; a reply that matches no member after cleaning makes it fail,
\* and neither the reply nor a default subject is returned.
C12_SubjectFromEnumeration ==
    (applied.fn \in SubjectCalls /\ applied.outcome.ok)
        => \E i \in 1..Len(validSubjects) : applied.outcome.text = validSubjects[i]

TopicCalls == {"determineTopic", "determineTopicGeneral"}

\* the unit and the topic named by the reply handed to determineTopic
ReplyUnit == Field(Trim(Strip(applied.response.text, {"'", "\""})), UnitLabel)
ReplyTopic == Field(Trim(Strip(applied.response.text, {"'", "\""})), TopicLabel)

\* C13: when the topic reply names no unit or no topic and the keyword
\* extraction finds nothing in the notes, determineTopic fails; it returns no
\* placeholder topic.
C13_NoPlaceholderTopic ==
    (/\ applied.fn \in TopicCalls
     /\ applied.response.kind = "text"
     /\ ReplyUnit = <<>> \/ ReplyTopic = <<>>
     /\ extractTopicKeywords(applied.notesText, applied.subject) = <<>>)
        => ~applied.outcome.ok

\* C14: a topic reply whose unit or topic is missing or contains "general"
\* in any letter case is not used: determineTopic (the revisions that throw)
\* answers with the keyword extraction, failing when that finds nothing.
C14_GeneralReplyRejected ==
    (/\ applied.fn = "determineTopic"
     /\ applied.response.kind = "text"
     /\ \/ ReplyUnit = <<>>
        \/ ReplyTopic = <<>>
        \/ Includes(toLowerCase(ReplyUnit), General)
        \/ Includes(toLowerCase(ReplyTopic), General))
        => applied.outcome =
             IF extractTopicKeywords(applied.notesText, applied.subject) = <<>>
             THEN Throws
             ELSE Returns(extractTopicKeywords(applied.notesText, applied.subject))

(***************************************************************************)
(* Claims about the score computation (SpecScore)                          *)
(***************************************************************************)
\* C15: overallScore equals round(100 * (sum of the scores) / (number of
\* questions)), halves rounded up; the scores 1, 1, 0, 0.5 give 63.
C15_OverallScoreRounded ==
    applied.fn = "overallScore"
        => LET g == applied.grades
               n == g.correct + g.partial + g.wrong
           IN  applied.outcome = (100 * (2 * g.correct + g.partial) + n) \div (2 * n)

(***************************************************************************)
(* Claim about the overall feedback (SpecFeedback)                         *)
(***************************************************************************)
\* C30: the overall feedback message is chosen from overallScore alone, with
\* tier boundaries at 90, 70 and 50: a score of 90 or more gives the top
\* tier, 70 to 89 the second, 50 to 69 the third, and a score below 50 the
\* review-and-retry tier.
C30_FeedbackTiers ==
    applied.fn = "generateOverallFeedback"
        => LET score == applied.score
               tier == applied.outcome
           IN  /\ tier \in {"excellent", "good", "basic", "review"}
               /\ tier = "excellent" <=> score >= 90
               /\ tier = "good" <=> score \in 70..89
               /\ tier = "basic" <=> score \in 50..69
               /\ tier = "review" <=> score < 50

\* a score on the highest boundary is in the top tier
C30_Witness ==
    /\ applied.fn = "generateOverallFeedback"
    /\ applied.score = 90
    /\ applied.outcome = "excellent"

(***************************************************************************)
(* Claims about the text normalizer (SpecNormalize)                        *)
(***************************************************************************)
\* C16: convertLatexToSymbols is idempotent: applied to its own result it
\* changes nothing.
C16_NormalizerIdempotent ==
    applied.fn = "convertLatexToSymbols"
        => convertLatexToSymbols(applied.result) = applied.result

\* "\in\in" has been normalized to two symbols, and normalizing those again
\* has left them as they were
C16_Witness ==
    /\ applied.fn = "convertLatexToSymbols"
    /\ applied.text = <<"U+2208", "U+2208">>
    /\ applied.result = applied.text

====
